---- MODULE Spec2Model ----
(***************************************************************************)
(* A model of the agent coordination engine of AgentCommunicationMcp:      *)
(* the task queue state machine (core/TaskQueue.js, core/Task.js), the     *)
(* relationship registry (core/RelationshipManager.js), the file mailbox   *)
(* protocol (communication/CommunicationProtocol.js), agent registration   *)
(* (index.js, mcp-server.js) and the JSON-RPC dispatcher (mcp-server.js,   *)
(* mcp-server-shared.js), with the connections of the shared server and    *)
(* the stdio proxy in front of it (mcp-proxy.js).                          *)
(*                                                                         *)
(* Every per-agent file is a variable indexed by agent id.  Timestamps     *)
(* come from a logical clock.  uuidv4() yields the next unused name of a   *)
(* pool.  Each operation is one action; it records its name and whether it *)
(* returned (ok) or threw in lastOp.                                       *)
(***************************************************************************)
EXTENDS Integers, Sequences, FiniteSets, TLC

VARIABLES
    pending,          \* [agent -> Seq(task)]   tasks/pending.json
    active,           \* [agent -> Seq(task)]   tasks/active.json
    completed,        \* [agent -> Seq(task)]   tasks/completed.json
    dirs,             \* the agents whose directory and default files exist
    context,          \* [agent -> Seq(entry)]  context.md
    mcpConfig,        \* [agent -> document]    mcp_config.json
    connectedAgents,  \* MCPAgentServer.connectedAgents
    sysAgents,        \* AgentCommunicationSystem.agents: id -> Agent object
    registeredAgents, \* CommunicationProtocol.registeredAgents
    objCount,         \* number of Agent objects constructed
    clock,            \* the time new Date() returns
    relationships,    \* [agent -> registry]   relationships.json
    outgoing,         \* [agent -> set of messages]  tasks/requests/outgoing
    incoming,         \* [agent -> set of messages]  tasks/requests/incoming
    processed,        \* [agent -> set of messages]  incoming/processed
    dispatched,       \* ids handed to a handler by the latest poll, in order
    transport,        \* the server that runs: "stdio" or "shared"
    messageHandlers,  \* its method table: name -> function object
    response,         \* the last JSON-RPC response it wrote
    initialized,      \* MCPProxy.initialized
    forwarded,        \* the requests the proxy sent to the shared server
    stdout,           \* the last response the proxy wrote
    clientId,         \* [socket -> id]  the clientId of its handleConnection
    connectedClients, \* SharedMCPServer.connectedClients: {[id, ws]}
    inflight,         \* the requests the shared server is handling
    sent,             \* [socket -> Seq(message)] what was sent on each socket
    readyState,       \* [socket -> state] None before the socket connects
    sharedConnectedAgents, \* SharedMCPServer.connectedAgents: the agent ids
    isConnected,      \* SharedMCPClient.isConnected
    clientWs,         \* the state of SharedMCPClient.ws, None before connect
    pendingRequests,  \* SharedMCPClient.pendingRequests: the ids it holds
    messageId,        \* SharedMCPClient.messageId
    reconnectAttempts, \* SharedMCPClient.reconnectAttempts
    requestTimers,    \* the ids whose request timeout is set and not fired
    reconnectTimers,  \* the delays of the reconnect timers that are set
    unanswered,       \* the ids the server got on this socket and owes
    settled,          \* [id -> Seq(outcome)] how each request promise ended
    isRunning,        \* CommunicationProtocol.isRunning
    watchInterval,    \* CommunicationProtocol.watchInterval: a timer or None
    timers,           \* the interval timers that are set and not cleared
    ticks,            \* [slot -> tick] the pollForMessages calls in flight
    calls,            \* [slot -> call] the createTask calls in flight
    reported,         \* the task ids createTask has returned
    uuidCount,        \* number of uuidv4() values handed out
    lastOp            \* the last call: its name, outcome and return value

queueVars == <<pending, active, completed>>

regVars == <<dirs, context, mcpConfig, connectedAgents, sysAgents,
             registeredAgents, objCount, clock>>

relVars == <<relationships>>

mailVars == <<outgoing, incoming, processed, dispatched>>

clientVars == <<isConnected, clientWs, pendingRequests, messageId,
                reconnectAttempts, requestTimers, reconnectTimers,
                unanswered, settled>>

\* What no operation of the servers writes: the method table, the shared
\* server's own agent map and the state of the network client.
tableVars == <<transport, messageHandlers, sharedConnectedAgents, clientVars>>

proxyVars == <<initialized, forwarded, stdout>>

connVars == <<clientId, readyState, connectedClients, inflight, sent>>

netVars == <<proxyVars, connVars>>

pollVars == <<isRunning, watchInterval, timers, ticks>>

callVars == <<calls, reported>>

\* What no operation writes but the steps of a poll tick and of a createTask
\* call: the method table is built once by the constructor.
idleVars == <<tableVars, pollVars, callVars>>

vars == <<queueVars, regVars, relVars, mailVars, idleVars, response,
          netVars, uuidCount, lastOp>>

\* What the task operations leave alone, what registration leaves alone and
\* what the relationship operations leave alone.  No operation but
\* handleMessage writes a response, and only the proxy and the connections
\* of the shared server write netVars.
otherQ == <<regVars, relVars, mailVars, idleVars>>
otherR == <<queueVars, uuidCount, relVars, mailVars, idleVars>>
otherL == <<queueVars, uuidCount, mailVars, idleVars>>

\* ------------------------------------------------------------------ bounds

\* Task documents held by all agents together.
MaxTasks == 2

\* uuidv4() values handed out in one run.
MaxUuid == 2

\* The latest time the clock reaches.
MaxClock == 2

\* The highest registration counter an agent reaches.
MaxRegistrations == 2

\* Entries held by all relationship registries together.
MaxRelationships == 2

\* Entries of a context log, its header included.
MaxContext == 3

\* --------------------------------------------------------------- constants

Agents == {"a", "b"}

\* Ids a caller passes to the Task constructor (options.id).
TaskIds == {"t1", "t2"}
Sockets == {"ws1", "ws2"}

\* The values uuidv4() returns, in the order it returns them.
UuidNames == <<"u1", "u2", "u3", "u4", "u5", "u6", "u7", "u8">>

Statuses == {"pending", "in_progress", "completed", "blocked"}

TaskTypes == {"implementation", "request", "response"}

Priorities == {"high", "medium", "low"}

\* The absent value of an optional string field (null, undefined, '').
None == ""

\* ------------------------------------------------------------ array helpers

\* Array.prototype.findIndex(t => t.id === id), 1-based; 0 when there is none.
FindIndex(tasks, id) ==
    IF \E i \in 1..Len(tasks) : tasks[i].id = id
    THEN CHOOSE i \in 1..Len(tasks) :
            /\ tasks[i].id = id
            /\ \A j \in 1..(i - 1) : tasks[j].id # id
    ELSE 0

\* Array.prototype.splice(i, 1)
Splice(tasks, i) ==
    [j \in 1..(Len(tasks) - 1) |-> IF j < i THEN tasks[j] ELSE tasks[j + 1]]

\* Array.prototype.includes
Includes(arr, x) == \E i \in 1..Len(arr) : arr[i] = x

\* tasks.map(t => t.id)
TaskIdsOf(tasks) == {tasks[i].id : i \in 1..Len(tasks)}

\* ---------------------------------------------------------------- Task.js

\* new Task(options): the fields of a task document.
Task(id, type, title, status, owner, creator, target, reference, deps, dels) ==
    [id |-> id, type |-> type, title |-> title, priority |-> "medium",
     status |-> status, agent_id |-> owner, created_by |-> creator,
     target_agent_id |-> target, reference_task_id |-> reference,
     dependencies |-> deps, deliverables |-> dels, blockReason |-> None]

\* Task.updateStatus
updateStatus(task, newStatus) == [task EXCEPT !.status = newStatus]

\* Task.addDeliverable: push unless already included.
addDeliverable(task, d) ==
    IF Includes(task.deliverables, d)
    THEN task
    ELSE [task EXCEPT !.deliverables = Append(@, d)]

\* deliverables.forEach(d => task.addDeliverable(d))
RECURSIVE addDeliverables(_, _)
addDeliverables(task, dels) ==
    IF dels = <<>>
    THEN task
    ELSE addDeliverables(addDeliverable(task, Head(dels)), Tail(dels))

\* Task.isReady: dependencies.every(d => completedTaskIds.includes(d))
isReady(task, completedTaskIds) ==
    \A d \in task.dependencies : d \in completedTaskIds

\* Task.validate: the set of violations.
validate(task) ==
    {e \in {"id", "title", "agent_id", "created_by", "type", "priority",
            "status", "target_agent_id", "reference_task_id"} :
        \/ e = "id" /\ task.id = None
        \/ e = "title" /\ task.title = None
        \/ e = "agent_id" /\ task.agent_id = None
        \/ e = "created_by" /\ task.created_by = None
        \/ e = "type" /\ task.type \notin TaskTypes
        \/ e = "priority" /\ task.priority \notin Priorities
        \/ e = "status" /\ task.status \notin Statuses
        \/ e = "target_agent_id" /\ task.type = "request"
                                 /\ task.target_agent_id = None
        \/ e = "reference_task_id" /\ task.type = "response"
                                   /\ task.reference_task_id = None}

\* ------------------------------------------------------------- bookkeeping

TotalTasks ==
    LET n(a) == Len(pending[a]) + Len(active[a]) + Len(completed[a])
    IN n("a") + n("b")

\* The record of a call.
Op(name, ok) ==
    [op |-> name, ok |-> ok, ret |-> None, errors |-> {}, result |-> <<>>]

\* The record of a call that returned a value.
OpRet(name, ret) == [Op(name, TRUE) EXCEPT !.ret = ret]

\* The record of a call that threw the errors of a validation.
OpInvalid(name, errors) == [Op(name, FALSE) EXCEPT !.errors = errors]

\* The record of a call that returned a response object.
OpResult(name, result) == [Op(name, TRUE) EXCEPT !.result = <<result>>]

\* uuidv4()
uuidv4 == UuidNames[uuidCount + 1]

\* ------------------------------------------------------------ TaskQueue.js

\* TaskQueue.addTask
AddTask(a, task) ==
    /\ TotalTasks < MaxTasks
    /\ IF validate(task) # {}
       THEN /\ lastOp' = OpInvalid("addTask", validate(task))
            /\ UNCHANGED <<pending, active, completed, otherQ, uuidCount>>
       ELSE /\ pending' = [pending EXCEPT ![a] = Append(@, task)]
            /\ lastOp' = Op("addTask", TRUE)
            /\ UNCHANGED <<active, completed, otherQ, uuidCount>>

\* activateTask without its dependency check.
ActivateTask_NoDependencyCheck(a, taskId) ==
    LET taskIndex == FindIndex(pending[a], taskId)
        task == pending[a][taskIndex]
    IN IF taskIndex = 0
       THEN /\ lastOp' = Op("activateTask", FALSE)
            /\ UNCHANGED <<pending, active, completed, otherQ, uuidCount>>
       ELSE /\ pending' = [pending EXCEPT ![a] = Splice(@, taskIndex)]
            /\ active' = [active EXCEPT
                             ![a] = Append(@, updateStatus(task, "in_progress"))]
            /\ lastOp' = Op("activateTask", TRUE)
            /\ UNCHANGED <<completed, otherQ, uuidCount>>

\* TaskQueue.activateTask
ActivateTask(a, taskId) ==
    LET taskIndex == FindIndex(pending[a], taskId)
        task == pending[a][taskIndex]
    IN IF taskIndex = 0
       THEN /\ lastOp' = Op("activateTask", FALSE)
            /\ UNCHANGED <<pending, active, completed, otherQ, uuidCount>>
       ELSE IF ~isReady(task, TaskIdsOf(completed[a]))
       THEN /\ lastOp' = Op("activateTask", FALSE)
            /\ UNCHANGED <<pending, active, completed, otherQ, uuidCount>>
       ELSE /\ pending' = [pending EXCEPT ![a] = Splice(@, taskIndex)]
            /\ active' = [active EXCEPT
                             ![a] = Append(@, updateStatus(task, "in_progress"))]
            /\ lastOp' = Op("activateTask", TRUE)
            /\ UNCHANGED <<completed, otherQ, uuidCount>>

\* TaskQueue.completeTask
CompleteTask(a, taskId, deliverables) ==
    LET taskIndex == FindIndex(active[a], taskId)
        task == active[a][taskIndex]
    IN IF taskIndex = 0
       THEN /\ lastOp' = Op("completeTask", FALSE)
            /\ UNCHANGED <<pending, active, completed, otherQ, uuidCount>>
       ELSE /\ active' = [active EXCEPT ![a] = Splice(@, taskIndex)]
            /\ completed' = [completed EXCEPT ![a] =
                   Append(@, addDeliverables(updateStatus(task, "completed"),
                                             deliverables))]
            /\ lastOp' = Op("completeTask", TRUE)
            /\ UNCHANGED <<pending, otherQ, uuidCount>>

\* TaskQueue.blockTask
BlockTask(a, taskId, reason) ==
    LET taskIndex == FindIndex(active[a], taskId)
    IN IF taskIndex = 0
       THEN /\ lastOp' = Op("blockTask", FALSE)
            /\ UNCHANGED <<pending, active, completed, otherQ, uuidCount>>
       ELSE /\ active' = [active EXCEPT ![a][taskIndex] =
                   [updateStatus(@, "blocked") EXCEPT
                       !.blockReason = IF reason # None THEN reason
                                       ELSE @]]
            /\ lastOp' = Op("blockTask", TRUE)
            /\ UNCHANGED <<pending, completed, otherQ, uuidCount>>

\* An unblock that leaves the stored reason in the metadata.
UnblockTask_KeepsReason(a, taskId) ==
    LET taskIndex == FindIndex(active[a], taskId)
    IN IF taskIndex = 0
       THEN /\ lastOp' = Op("unblockTask", FALSE)
            /\ UNCHANGED <<pending, active, completed, otherQ, uuidCount>>
       ELSE /\ active' = [active EXCEPT ![a][taskIndex] =
                   updateStatus(@, "in_progress")]
            /\ lastOp' = Op("unblockTask", TRUE)
            /\ UNCHANGED <<pending, completed, otherQ, uuidCount>>

\* TaskQueue.unblockTask
UnblockTask(a, taskId) ==
    LET taskIndex == FindIndex(active[a], taskId)
    IN IF taskIndex = 0
       THEN /\ lastOp' = Op("unblockTask", FALSE)
            /\ UNCHANGED <<pending, active, completed, otherQ, uuidCount>>
       ELSE /\ active' = [active EXCEPT ![a][taskIndex] =
                   [updateStatus(@, "in_progress") EXCEPT
                       !.blockReason = None]]
            /\ lastOp' = Op("unblockTask", TRUE)
            /\ UNCHANGED <<pending, completed, otherQ, uuidCount>>

\* TaskQueue.getReadyTasks: the pending tasks whose dependencies are all
\* among the completed ids.
GetReadyTasks(a) ==
    SelectSeq(pending[a], LAMBDA t : isReady(t, TaskIdsOf(completed[a])))

\* TaskQueue.getTaskStats
GetTaskStats(a) ==
    [active |-> Len(active[a]),
     pending |-> Len(pending[a]),
     completed |-> Len(completed[a]),
     total |-> Len(active[a]) + Len(pending[a]) + Len(completed[a]),
     blocked |-> Len(SelectSeq(active[a], LAMBDA t : t.status = "blocked")),
     ready |-> Len(GetReadyTasks(a))]

\* The array from its last element to its first.
Reverse(arr) == [i \in 1..Len(arr) |-> arr[Len(arr) + 1 - i]]

\* completedTasks.sort(most recent updated_at first).slice(0, keepCount).
\* completeTask pushes onto the end of completed.json with the time of the
\* call, so the Task Queue keeps the file in the order of completion and
\* the sort turns it round.
MostRecent(completedTasks, keepCount) ==
    SubSeq(Reverse(completedTasks), 1, keepCount)

\* TaskQueue.cleanupCompletedTasks
CleanupCompletedTasks(a, keepCount) ==
    /\ completed' = IF Len(completed[a]) > keepCount
                    THEN [completed EXCEPT
                             ![a] = MostRecent(completed[a], keepCount)]
                    ELSE completed
    /\ lastOp' = Op("cleanupCompletedTasks", TRUE)
    /\ UNCHANGED <<pending, active, otherQ, uuidCount>>

\* ------------------------------------------------- mcp-server.js: the tasks

\* The document createTask builds: a fresh id, status pending, the agent as
\* owner, defaults for an absent type, priority and creator.
NewTask(a, taskData, createdBy) ==
    [taskData EXCEPT
        !.id = uuidv4,
        !.type = IF @ = None THEN "implementation" ELSE @,
        !.priority = IF @ = None THEN "medium" ELSE @,
        !.status = "pending",
        !.agent_id = a,
        !.created_by = IF createdBy # None THEN createdBy
                       ELSE IF taskData.created_by # None
                            THEN taskData.created_by
                            ELSE a]

\* MCPAgentServer.createTask: the document is pushed onto pending.json
\* without validation.
CreateTask(a, taskData, createdBy) ==
    /\ TotalTasks < MaxTasks
    /\ uuidCount < MaxUuid
    /\ a \in dirs
    /\ pending' = [pending EXCEPT
                      ![a] = Append(@, NewTask(a, taskData, createdBy))]
    /\ uuidCount' = uuidCount + 1
    /\ lastOp' = OpRet("task-create", uuidv4)
    /\ UNCHANGED <<active, completed, otherQ>>

\* createTask for an agent without a directory: writeFile throws.
CreateTaskNoDirectory(a) ==
    /\ uuidCount < MaxUuid
    /\ a \notin dirs
    /\ uuidCount' = uuidCount + 1
    /\ lastOp' = Op("task-create", FALSE)
    /\ UNCHANGED <<queueVars, otherQ>>

\* The task/create handler; task is <<taskData>>, or <<>> when absent.
TaskCreate(agentId, task, createdBy) ==
    IF agentId = None \/ task = <<>>
    THEN /\ lastOp' = Op("task-create", FALSE)
         /\ UNCHANGED <<queueVars, otherQ, uuidCount>>
    ELSE \/ CreateTask(agentId, task[1], createdBy)
         \/ CreateTaskNoDirectory(agentId)

\* The file of the first of active.json, pending.json, completed.json that
\* holds the id; None when none does.
FileOf(a, taskId) ==
    IF FindIndex(active[a], taskId) # 0 THEN "active"
    ELSE IF FindIndex(pending[a], taskId) # 0 THEN "pending"
    ELSE IF FindIndex(completed[a], taskId) # 0 THEN "completed"
    ELSE None

\* The document as updateTaskStatus rewrites it.
Updated(task, status, deliverables) ==
    [task EXCEPT !.status = status,
                 !.deliverables = IF Len(deliverables) > 0
                                  THEN @ \o deliverables
                                  ELSE @]

\* completedTasks.push(task) on the agent's completed.json
PushCompleted_AlsoForCreator(a, task) ==
    [x \in Agents |->
        IF x = a \/ x = task.created_by
        THEN Append(completed[x], task)
        ELSE completed[x]]

PushCompleted(a, task) == [completed EXCEPT ![a] = Append(@, task)]

\* The task updateTaskStatus returns: the first document with the id,
\* rewritten.
UpdatedTask(a, taskId, status, deliverables) ==
    LET file == FileOf(a, taskId)
        tasks == CASE file = "active" -> active[a]
                   [] file = "pending" -> pending[a]
                   [] OTHER -> completed[a]
    IN Updated(tasks[FindIndex(tasks, taskId)], status, deliverables)

\* The files updateTaskStatus writes.
WriteUpdate(a, taskId, status, deliverables) ==
    LET file == FileOf(a, taskId)
        tasks == CASE file = "active" -> active[a]
                   [] file = "pending" -> pending[a]
                   [] OTHER -> completed[a]
        taskIndex == FindIndex(tasks, taskId)
        task == Updated(tasks[taskIndex], status, deliverables)
        inPlace == [tasks EXCEPT ![taskIndex] = task]
    IN IF file = None
       THEN UNCHANGED <<pending, active, completed, otherQ, uuidCount>>
       ELSE /\ UNCHANGED <<otherQ, uuidCount>>
            /\ IF status = "completed" /\ file # "completed"
               THEN /\ active' = IF file = "active"
                                 THEN [active EXCEPT
                                          ![a] = Splice(@, taskIndex)]
                                 ELSE active
                    /\ pending' = IF file = "pending"
                                  THEN [pending EXCEPT
                                           ![a] = Splice(@, taskIndex)]
                                  ELSE pending
                    /\ completed' = PushCompleted(a, task)
               ELSE /\ active' = IF file = "active"
                                 THEN [active EXCEPT ![a] = inPlace]
                                 ELSE active
                    /\ pending' = IF file = "pending"
                                  THEN [pending EXCEPT ![a] = inPlace]
                                  ELSE pending
                    /\ completed' = IF file = "completed"
                                    THEN [completed EXCEPT ![a] = inPlace]
                                    ELSE completed

\* MCPAgentServer.updateTaskStatus
UpdateTaskStatus(a, taskId, status, deliverables) ==
    /\ WriteUpdate(a, taskId, status, deliverables)
    /\ lastOp' = Op("task-update", FileOf(a, taskId) # None)

\* The condition of the incorporation guidance, without the comparison of
\* the creator with the agent.
IncorporationNeeded_AnyCreator(agentId, status, task) ==
    status = "completed" /\ task.created_by # None

\* status === 'completed' && task.created_by && task.created_by !== agentId
IncorporationNeeded(agentId, status, task) ==
    status = "completed" /\ task.created_by # None
                         /\ task.created_by # agentId

\* response.incorporation_guidance
IncorporationGuidance(agentId, task) ==
    [creator_agent |-> task.created_by,
     completed_by |-> agentId,
     original_task |-> [id |-> task.id, title |-> task.title,
                        priority |-> task.priority,
                        deliverables |-> task.deliverables],
     suggested_incorporation_task |->
         [title |-> task.title, priority |-> task.priority,
          agent_id |-> task.created_by, created_by |-> agentId,
          target_agent_id |-> task.created_by,
          reference_task_id |-> task.id,
          deliverables |-> task.deliverables,
          metadata |-> [incorporation_task |-> TRUE,
                        original_task_id |-> task.id,
                        completed_by |-> agentId]]]

\* The response of the task/update handler.
UpdateResponse(agentId, status, task) ==
    [success |-> TRUE, task |-> task,
     incorporation_needed |-> IncorporationNeeded(agentId, status, task),
     incorporation_guidance |->
         IF IncorporationNeeded(agentId, status, task)
         THEN <<IncorporationGuidance(agentId, task)>>
         ELSE <<>>]

\* The task/update handler.
TaskUpdate(agentId, taskId, status, deliverables) ==
    IF agentId = None \/ taskId = None \/ status = None
    THEN /\ lastOp' = Op("task-update", FALSE)
         /\ UNCHANGED <<queueVars, otherQ, uuidCount>>
    ELSE /\ WriteUpdate(agentId, taskId, status, deliverables)
         /\ lastOp' =
                IF FileOf(agentId, taskId) = None
                THEN Op("task-update", FALSE)
                ELSE OpResult("task-update",
                         UpdateResponse(agentId, status,
                             UpdatedTask(agentId, taskId, status,
                                         deliverables)))

\* ------------------------------------------------ mcp-server.js: task/get

\* The states getTasks knows.
validStates == {"pending", "active", "completed"}

\* A read that takes pending.json for every state.
TasksIn_AlwaysPending(a, stateToLoad) ==
    IF a \in dirs THEN pending[a] ELSE <<>>

\* The file of a state, read and parsed; a file that cannot be read gives
\* the empty array.
TasksIn(a, stateToLoad) ==
    IF a \notin dirs
    THEN <<>>
    ELSE IF stateToLoad = "active" THEN active[a]
    ELSE IF stateToLoad = "pending" THEN pending[a]
    ELSE completed[a]

\* MCPAgentServer.getTasks: the array of the state, or the three arrays
\* when no state is given.
GetTasks(agentId, state) ==
    IF state # None
    THEN TasksIn(agentId, state)
    ELSE [pending |-> TasksIn(agentId, "pending"),
          active |-> TasksIn(agentId, "active"),
          completed |-> TasksIn(agentId, "completed")]

\* The task/get handler: it returns the tasks under a message that names
\* the agent and the state.
TaskGet(agentId, state) ==
    /\ lastOp' = IF agentId = None
                 THEN Op("task-get", FALSE)
                 ELSE IF state # None /\ state \notin validStates
                 THEN Op("task-get", FALSE)
                 ELSE [Op("task-get", TRUE) EXCEPT
                          !.result = <<agentId, state,
                                       GetTasks(agentId, state)>>]
    /\ UNCHANGED <<queueVars, regVars, relVars, mailVars, idleVars,
                   uuidCount>>

\* ------------------------------------------- mcp-server.js: registration

\* The entry of an agent that is not in connectedAgents.
NotConnected ==
    [registered |-> FALSE, capabilities |-> None, connectedAt |-> 0,
     lastActivity |-> 0, registrationCount |-> 0]

\* No mcp_config.json.
NoConfig ==
    [kind |-> "none", capabilities |-> None, connectedAt |-> 0,
     lastUpdated |-> 0]

\* The config MCPAgentServer.registerAgent writes for a new agent.
FreshConfig(capabilities) ==
    [kind |-> "mcp", capabilities |-> capabilities, connectedAt |-> clock,
     lastUpdated |-> 0]

\* The config Agent.initializeFiles writes when there is none.
DefaultMcpConfig ==
    [kind |-> "agent", capabilities |-> None, connectedAt |-> 0,
     lastUpdated |-> 0]

\* An entry of context.md: what it reports and the task title it names.
ContextEntry(kind, title) == [kind |-> kind, title |-> title]

\* context.md as created: its header.
DefaultContext == <<ContextEntry("header", None)>>

\* The categories of relationships.json.
Categories == {"consumers", "producers", "bidirectional", "optional"}

\* relationships.json as created.
DefaultRelationships == [c \in Categories |-> <<>>]

\* A file written with its default whatever it holds.
WhenAbsent_Overwrites(exists, current, default) == default

\* The content of a file that is written with its default only when it does
\* not exist.
WhenAbsent(exists, current, default) ==
    IF exists THEN current ELSE default

\* The directory, and context.md, the three task files and
\* relationships.json, each created when absent.
InitializeFiles(a) ==
    /\ dirs' = dirs \cup {a}
    /\ context' = [context EXCEPT
                      ![a] = WhenAbsent(@ # <<>>, @, DefaultContext)]
    /\ pending' = [pending EXCEPT ![a] = WhenAbsent(a \in dirs, @, <<>>)]
    /\ active' = [active EXCEPT ![a] = WhenAbsent(a \in dirs, @, <<>>)]
    /\ completed' = [completed EXCEPT
                        ![a] = WhenAbsent(a \in dirs, @, <<>>)]
    /\ relationships' =
           [relationships EXCEPT
               ![a] = WhenAbsent(a \in dirs, @, DefaultRelationships)]

\* A connection record that stamps every registration with the current time.
ConnectionInfo_ResetsConnectedAt(existingAgent, capabilities) ==
    [registered |-> TRUE,
     capabilities |-> capabilities,
     connectedAt |-> clock,
     lastActivity |-> clock,
     registrationCount |->
         IF existingAgent.registered
         THEN existingAgent.registrationCount + 1
         ELSE 1]

\* connectedAgents.set(agentId, {...}) at the end of registerAgent.
ConnectionInfo(existingAgent, capabilities) ==
    [registered |-> TRUE,
     capabilities |-> capabilities,
     connectedAt |-> IF existingAgent.registered
                     THEN existingAgent.connectedAt
                     ELSE clock,
     lastActivity |-> clock,
     registrationCount |->
         IF existingAgent.registered
         THEN (IF existingAgent.registrationCount = 0
               THEN 1
               ELSE existingAgent.registrationCount) + 1
         ELSE 1]

\* MCPAgentServer.registerAgent
RegisterAgent(agentId, capabilities, forceUpdate) ==
    LET isExisting == connectedAgents[agentId].registered
    IN IF isExisting /\ ~forceUpdate
       THEN /\ lastOp' = OpRet("agent-register", "already registered")
            /\ UNCHANGED <<regVars, otherR>>
       ELSE /\ connectedAgents[agentId].registrationCount < MaxRegistrations
            /\ InitializeFiles(agentId)
            /\ mcpConfig' = [mcpConfig EXCEPT ![agentId] =
                   IF isExisting /\ @.kind # "none"
                   THEN [@ EXCEPT !.capabilities = capabilities,
                                  !.lastUpdated = clock]
                   ELSE FreshConfig(capabilities)]
            /\ connectedAgents' = [connectedAgents EXCEPT ![agentId] =
                   ConnectionInfo(@, capabilities)]
            /\ lastOp' = OpRet("agent-register",
                               IF isExisting THEN "updated" ELSE "registered")
            /\ UNCHANGED <<sysAgents, registeredAgents, objCount, clock,
                           uuidCount, mailVars, idleVars>>

\* The agent/register handler.
AgentRegister(agentId, capabilities, forceUpdate) ==
    IF agentId = None
    THEN /\ lastOp' = Op("agent-register", FALSE)
         /\ UNCHANGED <<regVars, otherR>>
    ELSE RegisterAgent(agentId, capabilities, forceUpdate)

\* ------------------------------------------------ index.js: registration

\* No Agent object.
NoAgent == 0

\* AgentCommunicationSystem.registerAgent
SystemRegisterAgent(agentId) ==
    IF sysAgents[agentId] # NoAgent
    THEN /\ lastOp' = Op("registerAgent", FALSE)
         /\ UNCHANGED <<regVars, otherR>>
    ELSE LET agent == objCount + 1
         IN /\ objCount' = agent
            /\ InitializeFiles(agentId)
            /\ mcpConfig' = [mcpConfig EXCEPT ![agentId] =
                   IF @.kind = "none" THEN DefaultMcpConfig ELSE @]
            /\ sysAgents' = [sysAgents EXCEPT ![agentId] = agent]
            /\ registeredAgents' = [registeredAgents EXCEPT
                                       ![agentId] = agent]
            /\ lastOp' = OpRet("registerAgent", agentId)
            /\ UNCHANGED <<connectedAgents, clock, uuidCount, mailVars,
                           idleVars>>

\* Time passes between two calls.
Tick ==
    /\ clock < MaxClock
    /\ clock' = clock + 1
    /\ UNCHANGED <<dirs, context, mcpConfig, connectedAgents, sysAgents,
                   registeredAgents, objCount, otherR, lastOp>>

\* ------------------------------------------------ RelationshipManager.js

\* The entry pushed onto a category.
Relationship(otherAgentId, relationshipType) ==
    [agentId |-> otherAgentId, type |-> relationshipType, status |-> "active"]

\* relationships[category].findIndex(r => r.agentId === otherAgentId)
FindAgent(list, otherAgentId) ==
    IF \E i \in 1..Len(list) : list[i].agentId = otherAgentId
    THEN CHOOSE i \in 1..Len(list) :
             /\ list[i].agentId = otherAgentId
             /\ \A j \in 1..(i - 1) : list[j].agentId # otherAgentId
    ELSE 0

\* The number of entries in all registries.
TotalRelationships ==
    LET Sum(a) == Len(relationships[a].consumers)
                  + Len(relationships[a].producers)
                  + Len(relationships[a].bidirectional)
                  + Len(relationships[a].optional)
    IN Sum("a") + Sum("b")

\* The context entry a change of the registry leaves ("Added ... relationship
\* with X", "Removed relationship with X").
RelationshipNote == ContextEntry("relationship", None)

\* Agent.appendToContext
AppendToContext(a, entry) ==
    /\ Len(context[a]) < MaxContext
    /\ context' = [context EXCEPT ![a] = Append(@, entry)]

\* The body the four add operations share: return when the peer is already
\* in the category, else push, save and note it in the context.
AddRelationshipTo(a, category, otherAgentId, relationshipType) ==
    IF FindAgent(relationships[a][category], otherAgentId) # 0
    THEN /\ lastOp' = OpRet("addRelationship", "already exists")
         /\ UNCHANGED <<regVars, relVars, otherL>>
    ELSE /\ TotalRelationships < MaxRelationships
         /\ relationships' = [relationships EXCEPT ![a][category] =
                Append(@, Relationship(otherAgentId, relationshipType))]
         /\ AppendToContext(a, RelationshipNote)
         /\ lastOp' = OpRet("addRelationship", "added")
         /\ UNCHANGED <<dirs, mcpConfig, connectedAgents, sysAgents,
                        registeredAgents, objCount, clock, otherL>>

\* RelationshipManager.addConsumer
AddConsumer(a, consumerAgentId) ==
    AddRelationshipTo(a, "consumers", consumerAgentId, "direct")

\* RelationshipManager.addProducer
AddProducer(a, producerAgentId) ==
    AddRelationshipTo(a, "producers", producerAgentId, "direct")

\* RelationshipManager.addBidirectionalRelationship
AddBidirectionalRelationship(a, otherAgentId) ==
    AddRelationshipTo(a, "bidirectional", otherAgentId, "bidirectional")

\* RelationshipManager.addOptionalRelationship
AddOptionalRelationship(a, otherAgentId) ==
    AddRelationshipTo(a, "optional", otherAgentId, "optional")

\* One category after removeRelationship: its first entry for the peer
\* spliced out.
Without(list, otherAgentId) ==
    IF FindAgent(list, otherAgentId) # 0
    THEN Splice(list, FindAgent(list, otherAgentId))
    ELSE list

\* RelationshipManager.removeRelationship
RemoveRelationship(a, otherAgentId) ==
    LET removed == \E c \in Categories :
                       FindAgent(relationships[a][c], otherAgentId) # 0
    IN IF removed
       THEN /\ relationships' = [relationships EXCEPT ![a] =
                   [c \in Categories |-> Without(@[c], otherAgentId)]]
            /\ AppendToContext(a, RelationshipNote)
            /\ lastOp' = OpRet("removeRelationship", "true")
            /\ UNCHANGED <<dirs, mcpConfig, connectedAgents, sysAgents,
                           registeredAgents, objCount, clock, otherL>>
       ELSE /\ lastOp' = OpRet("removeRelationship", "false")
            /\ UNCHANGED <<regVars, relVars, otherL>>

\* RelationshipManager.getAllRelatedAgents
GetAllRelatedAgents(a) ==
    UNION {{relationships[a][c][i].agentId :
               i \in 1..Len(relationships[a][c])} : c \in Categories}

\* RelationshipManager.getRelationshipType: the category of the first entry
\* found for the peer, looking through consumers, producers, bidirectional
\* and optional in this order; None (null) when there is none.
GetRelationshipType(a, otherAgentId) ==
    CASE FindAgent(relationships[a].consumers, otherAgentId) # 0
             -> "consumer"
      [] FindAgent(relationships[a].producers, otherAgentId) # 0
             -> "producer"
      [] FindAgent(relationships[a].bidirectional, otherAgentId) # 0
             -> "bidirectional"
      [] FindAgent(relationships[a].optional, otherAgentId) # 0
             -> "optional"
      [] OTHER -> None

\* ------------------------------------------- mcp-server.js: relationships

\* The category a relationship type of the dispatcher is filed under.
CategoryOf(relationshipType) ==
    CASE relationshipType = "consumer" -> "consumers"
      [] relationshipType = "producer" -> "producers"
      [] relationshipType = "bidirectional" -> "bidirectional"
      [] relationshipType = "optional" -> "optional"
      [] OTHER -> None

\* MCPAgentServer.addRelationship
AddRelationship(agentId, targetAgentId, relationshipType) ==
    IF agentId \notin dirs
    THEN /\ lastOp' = Op("relationship-add", FALSE)
         /\ UNCHANGED <<regVars, relVars, otherL>>
    ELSE /\ TotalRelationships < MaxRelationships
         /\ relationships' =
                IF CategoryOf(relationshipType) = None
                THEN relationships
                ELSE [relationships EXCEPT
                         ![agentId][CategoryOf(relationshipType)] =
                             Append(@, Relationship(targetAgentId,
                                                    relationshipType))]
         /\ lastOp' = OpRet("relationship-add", "added")
         /\ UNCHANGED <<regVars, otherL>>

\* The relationship/add handler.
RelationshipAdd(agentId, targetAgentId, relationshipType) ==
    IF agentId = None \/ targetAgentId = None \/ relationshipType = None
    THEN /\ lastOp' = Op("relationship-add", FALSE)
         /\ UNCHANGED <<regVars, relVars, otherL>>
    ELSE AddRelationship(agentId, targetAgentId, relationshipType)

\* --------------------------------------------- mcp-server.js: agent/status

\* MCPAgentServer.getAgentStatus: the counts of the task files and of the
\* relationship registry and the pending tasks; a file that cannot be read
\* counts as empty.
GetAgentStatus(agentId) ==
    [agentId |-> agentId,
     connected |-> connectedAgents[agentId].registered,
     tasks |-> [active |-> Len(TasksIn(agentId, "active")),
                pending |-> Len(TasksIn(agentId, "pending")),
                completed |-> Len(TasksIn(agentId, "completed"))],
     pendingTasks |-> TasksIn(agentId, "pending"),
     relationships |->
         [c \in Categories |->
             IF agentId \in dirs THEN Len(relationships[agentId][c]) ELSE 0]]

\* The agent/status handler for a request that names an agent.
AgentStatus(agentId) ==
    /\ lastOp' = OpResult("agent-status", GetAgentStatus(agentId))
    /\ UNCHANGED <<queueVars, regVars, relVars, mailVars, idleVars,
                   uuidCount>>

\* ---------------------------------------------- CommunicationProtocol.js

\* The message types that have a handler.
MessageTypes == {"TASK_REQUEST", "TASK_RESPONSE", "STATUS_UPDATE",
                 "DEPENDENCY_NOTIFICATION", "INTEGRATION_TEST",
                 "COMPLETION_NOTIFICATION", "CONTEXT_SYNC"}

\* A message document; task_data is <<task>>, or <<>> when the message
\* carries no task.
Message(id, type, from, to, taskData) ==
    [id |-> id, type |-> type, timestamp |-> clock, from_agent_id |-> from,
     to_agent_id |-> to, task_data |-> taskData]

\* fs.writeFile(<dir>/<message.id>.json, ...): the file of that id is
\* created or replaced.
WriteFile(files, message) ==
    {m \in files : m.id # message.id} \cup {message}

\* A send that writes the receiver's copy without the payload.
SendMessage_DropsPayload(fromAgent, toAgent, message) ==
    /\ outgoing' = [outgoing EXCEPT ![fromAgent] = WriteFile(@, message)]
    /\ incoming' = [incoming EXCEPT ![toAgent] =
           WriteFile(@, [message EXCEPT !.task_data = <<>>,
                                        !.type = "CONTEXT_SYNC"])]
    /\ lastOp' = OpRet("sendMessage", message.id)
    /\ UNCHANGED <<processed, dispatched>>

\* CommunicationProtocol.sendMessage: the sender's outgoing copy, then the
\* receiver's incoming copy; a write into a missing directory throws.
SendMessage(fromAgent, toAgent, message) ==
    IF fromAgent \notin dirs
    THEN /\ lastOp' = Op("sendMessage", FALSE)
         /\ UNCHANGED mailVars
    ELSE IF toAgent \notin dirs
    THEN /\ outgoing' = [outgoing EXCEPT ![fromAgent] = WriteFile(@, message)]
         /\ lastOp' = Op("sendMessage", FALSE)
         /\ UNCHANGED <<incoming, processed, dispatched>>
    ELSE /\ outgoing' = [outgoing EXCEPT ![fromAgent] = WriteFile(@, message)]
         /\ incoming' = [incoming EXCEPT ![toAgent] = WriteFile(@, message)]
         /\ lastOp' = OpRet("sendMessage", message.id)
         /\ UNCHANGED <<processed, dispatched>>

\* AgentCommunicationSystem.createTaskRequest: a request task on the
\* sender's pending collection, then a TASK_REQUEST that carries it.
CreateTaskRequest(fromAgentId, toAgentId, title) ==
    LET requestTask == Task(uuidv4, "request", title, "pending", fromAgentId,
                            fromAgentId, toAgentId, None, {}, <<>>)
    IN IF sysAgents[fromAgentId] = NoAgent \/ sysAgents[toAgentId] = NoAgent
       THEN /\ lastOp' = Op("createTaskRequest", FALSE)
            /\ UNCHANGED <<queueVars, regVars, relVars, idleVars,
                        mailVars, uuidCount>>
       ELSE IF validate(requestTask) # {}
       THEN /\ uuidCount < MaxUuid
            /\ uuidCount' = uuidCount + 1
            /\ lastOp' = Op("createTaskRequest", FALSE)
            /\ UNCHANGED <<queueVars, regVars, relVars, idleVars, mailVars>>
       ELSE /\ uuidCount + 1 < MaxUuid
            /\ TotalTasks < MaxTasks
            /\ uuidCount' = uuidCount + 2
            /\ pending' = [pending EXCEPT
                              ![fromAgentId] = Append(@, requestTask)]
            /\ SendMessage(fromAgentId, toAgentId,
                           Message(UuidNames[uuidCount + 2], "TASK_REQUEST",
                                   fromAgentId, toAgentId, <<requestTask>>))
            /\ UNCHANGED <<active, completed, regVars, relVars, idleVars>>

\* What a poll tick works on.
World ==
    [incoming |-> incoming, processed |-> processed, pending |-> pending,
     context |-> context, dispatched |-> <<>>]

\* agent.appendToContext inside a handler; it throws, and the handler with
\* it, when there is no context.md.
Noted(w, a, entry) ==
    IF w.context[a] = <<>>
    THEN w
    ELSE [w EXCEPT !.context[a] = Append(@, entry)]

\* Task.fromJSON(message.task_data); without task_data the task is all
\* defaults.
fromJSON(taskData) ==
    IF taskData = <<>>
    THEN Task("fresh", "implementation", None, "pending", None, None, None,
              None, {}, <<>>)
    ELSE [taskData[1] EXCEPT
             !.id = IF @ = None THEN "fresh" ELSE @,
             !.type = IF @ = None THEN "implementation" ELSE @,
             !.priority = IF @ = None THEN "medium" ELSE @,
             !.status = IF @ = None THEN "pending" ELSE @,
             !.created_by = IF @ = None THEN taskData[1].agent_id ELSE @]

\* CommunicationProtocol.handleTaskRequest; addTask throws on an invalid task.
HandleTaskRequest(w, a, message) ==
    LET task == fromJSON(message.task_data)
    IN IF validate(task) # {}
       THEN w
       ELSE Noted([w EXCEPT !.pending[a] = Append(@, task)], a,
                  ContextEntry(message.type, task.title))

\* A dispatch in which every handler enqueues the payload as a task.
HandleMessage_EnqueuesAll(w, a, message) ==
    IF message.type \notin MessageTypes
    THEN w
    ELSE Noted([w EXCEPT !.dispatched = Append(@, message.id),
                         !.pending[a] = Append(@, fromJSON(message.task_data))],
               a, ContextEntry(message.type, None))

\* CommunicationProtocol.handleMessage: the handler of the message's type
\* runs; a type without a handler is logged and nothing runs.
HandleMessage(w, a, message) ==
    IF message.type \notin MessageTypes
    THEN w
    ELSE LET w1 == [w EXCEPT !.dispatched = Append(@, message.id)]
         IN IF message.type = "TASK_REQUEST"
            THEN HandleTaskRequest(w1, a, message)
            ELSE Noted(w1, a, ContextEntry(message.type, None))

\* CommunicationProtocol.archiveMessage: the file is renamed into processed/,
\* or unlinked when that fails.
ArchiveMessage(w, a, message, renameFails) ==
    [w EXCEPT !.incoming[a] = @ \ {message},
              !.processed[a] = IF renameFails
                               THEN @
                               ELSE WriteFile(@, message)]

\* The messages whose handler throws: addTask rejects the task of the
\* message, or appendToContext finds no context.md.
HandlerThrows(w, a, message) ==
    /\ message.type \in MessageTypes
    /\ \/ w.context[a] = <<>>
       \/ /\ message.type = "TASK_REQUEST"
          /\ validate(fromJSON(message.task_data)) # {}

\* A loop body in which the handler's error reaches the catch of the loop:
\* archiveMessage is skipped for that file.
ProcessFile_ErrorEscapes(w, a, message, renameFails) ==
    IF HandlerThrows(w, a, message)
    THEN HandleMessage(w, a, message)
    ELSE ArchiveMessage(HandleMessage(w, a, message), a, message, renameFails)

\* The body of the loop of processIncomingMessages: handleMessage, which
\* catches what the handler throws, then archiveMessage.
ProcessFile(w, a, message, renameFails) ==
    ArchiveMessage(HandleMessage(w, a, message), a, message, renameFails)

\* The loop over the files of processIncomingMessages.
RECURSIVE ProcessFiles(_, _, _, _)
ProcessFiles(w, a, files, failing) ==
    IF files = <<>>
    THEN w
    ELSE ProcessFiles(
             ProcessFile(w, a, Head(files), Head(files) \in failing),
             a, Tail(files), failing)

\* CommunicationProtocol.processIncomingMessages; order is the order in which
\* readdir lists files.
ProcessIncomingMessages(w, a, order, failing) ==
    IF a \notin dirs
    THEN w
    ELSE ProcessFiles(w, a,
                      SelectSeq(order, LAMBDA m : m \in w.incoming[a]),
                      failing)

\* The sequences that list every element of S once.
Orders(S) ==
    {s \in [1..Cardinality(S) -> S] :
        \A i, j \in 1..Cardinality(S) : i # j => s[i] # s[j]}

\* registeredAgents in insertion order.
RegisteredOrder ==
    LET R == {a \in Agents : registeredAgents[a] # NoAgent}
    IN CHOOSE s \in Orders(R) :
           \A i, j \in 1..Len(s) :
               i < j => registeredAgents[s[i]] < registeredAgents[s[j]]

\* The loop over the agents of pollForMessages.
RECURSIVE PollAgents(_, _, _, _)
PollAgents(w, agents, order, failing) ==
    IF agents = <<>>
    THEN w
    ELSE PollAgents(ProcessIncomingMessages(w, Head(agents), order, failing),
                    Tail(agents), order, failing)

\* CommunicationProtocol.pollForMessages: one tick.
PollForMessages ==
    LET files == UNION {incoming[a] : a \in Agents}
    IN \E order \in Orders(files), failing \in SUBSET files :
          LET w == PollAgents(World, RegisteredOrder, order, failing)
          IN /\ \A a \in Agents : Len(w.context[a]) <= MaxContext
             /\ TotalTasks + Len(w.pending["a"]) + Len(w.pending["b"])
                    - Len(pending["a"]) - Len(pending["b"]) <= MaxTasks
             /\ incoming' = w.incoming
             /\ processed' = w.processed
             /\ pending' = w.pending
             /\ context' = w.context
             /\ dispatched' = w.dispatched
             /\ lastOp' = Op("pollForMessages", TRUE)
             /\ UNCHANGED <<active, completed, outgoing, dirs, mcpConfig,
                            connectedAgents, sysAgents, registeredAgents,
                            objCount, clock, relVars, idleVars,
                            uuidCount>>

\* ------------------------------- CommunicationProtocol.js: timer and ticks

\* The names setInterval has for its timers.
MaxTimers == 2

\* The number of pollForMessages calls that can be in flight at a time.
MaxTicks == 2

\* A pollForMessages call: pc is where it is suspended ("agent": in readdir
\* for the head of agents; "file": in readFile and the handler for the head
\* of files; "archive": in archiveMessage for the head of files), log the
\* <<agent, message id>> it has handed to handleMessage so far.
PollTick(pc, agents, files, log) ==
    [pc |-> pc, agents |-> agents, files |-> files, log |-> log]

\* A slot without a call.
NoTick == PollTick("done", <<>>, <<>>, <<>>)

\* watchInterval when no timer is set (null).
NoTimer == 0

\* setInterval: a timer that no live timer is.
NewTimer ==
    CHOOSE id \in (1..MaxTimers) \ timers :
        \A other \in (1..MaxTimers) \ timers : id <= other

\* A start that sets a timer whether or not one is running.
Start_Unguarded ==
    /\ timers # 1..MaxTimers
    /\ isRunning' = TRUE
    /\ watchInterval' = NewTimer
    /\ timers' = timers \cup {NewTimer}
    /\ lastOp' = Op("start", TRUE)
    /\ UNCHANGED <<ticks, queueVars, regVars, relVars, mailVars, tableVars,
                   callVars, uuidCount, response, netVars>>

\* CommunicationProtocol.start
Start ==
    /\ IF isRunning
       THEN UNCHANGED <<isRunning, watchInterval, timers>>
       ELSE /\ timers # 1..MaxTimers
            /\ isRunning' = TRUE
            /\ watchInterval' = NewTimer
            /\ timers' = timers \cup {NewTimer}
    /\ lastOp' = Op("start", TRUE)
    /\ UNCHANGED <<ticks, queueVars, regVars, relVars, mailVars, tableVars,
                   callVars, uuidCount, response, netVars>>

\* CommunicationProtocol.stop
Stop ==
    /\ IF ~isRunning
       THEN UNCHANGED <<isRunning, watchInterval, timers>>
       ELSE /\ isRunning' = FALSE
            /\ timers' = IF watchInterval # NoTimer
                         THEN timers \ {watchInterval}
                         ELSE timers
            /\ watchInterval' = NoTimer
    /\ lastOp' = Op("stop", TRUE)
    /\ UNCHANGED <<ticks, queueVars, regVars, relVars, mailVars, tableVars,
                   callVars, uuidCount, response, netVars>>

\* What the steps of a tick leave alone besides the files they write.
otherT == <<active, completed, dirs, mcpConfig, connectedAgents, sysAgents,
            registeredAgents, objCount, clock, relVars, outgoing, dispatched,
            tableVars, isRunning, watchInterval, timers, callVars, uuidCount,
            lastOp, response, netVars>>

\* The callback of a live timer: pollForMessages runs up to the readdir for
\* the first registered agent.
TimerFires(k) ==
    /\ timers # {}
    /\ ticks[k] = NoTick
    /\ \A j \in 1..(k - 1) : ticks[j] # NoTick
    /\ RegisteredOrder # <<>>
    /\ ticks' = [ticks EXCEPT
                    ![k] = PollTick("agent", RegisteredOrder, <<>>, <<>>)]
    /\ UNCHANGED <<pending, context, incoming, processed, otherT>>

\* The loop of pollForMessages moves on: to the readdir for the next
\* registered agent, or out of the call.
NextAgent(t) ==
    IF Tail(t.agents) = <<>>
    THEN NoTick
    ELSE PollTick("agent", Tail(t.agents), <<>>, t.log)

\* The loop of processIncomingMessages moves on: to the next file of the
\* listing, or out of the loop.
NextFile(t) ==
    IF Tail(t.files) = <<>>
    THEN NextAgent(t)
    ELSE PollTick("file", t.agents, Tail(t.files), t.log)

\* readdir returns: the listing of the agent's incoming directory in some
\* order; ENOENT and an empty listing end the agent's turn.
ReadDir(k) ==
    LET t == ticks[k]
        a == Head(t.agents)
    IN /\ t.pc = "agent"
       /\ IF a \notin dirs \/ incoming[a] = {}
          THEN ticks' = [ticks EXCEPT ![k] = NextAgent(t)]
          ELSE \E order \in Orders(incoming[a]) :
                   ticks' = [ticks EXCEPT
                       ![k] = PollTick("file", t.agents, order, t.log)]
       /\ UNCHANGED <<pending, context, incoming, processed, otherT>>

\* A loop that goes on to the next file without awaiting archiveMessage.
AfterHandler_NoArchive(t, a, message) ==
    NextFile([t EXCEPT !.log = Append(@, <<a, message.id>>)])

\* handleMessage has returned: the call goes on to archiveMessage.
AfterHandler(t, a, message) ==
    PollTick("archive", t.agents, t.files, Append(t.log, <<a, message.id>>))

\* readFile and handleMessage for the next file of the listing; a file that
\* is gone makes readFile throw, and the loop goes on.
Handle(k) ==
    LET t == ticks[k]
        a == Head(t.agents)
        message == Head(t.files)
        w == HandleMessage(World, a, message)
    IN /\ t.pc = "file"
       /\ IF message \notin incoming[a]
          THEN /\ ticks' = [ticks EXCEPT ![k] = NextFile(t)]
               /\ UNCHANGED <<pending, context>>
          ELSE /\ ticks' = [ticks EXCEPT ![k] = AfterHandler(t, a, message)]
               /\ pending' = w.pending
               /\ context' = w.context
       /\ UNCHANGED <<incoming, processed, otherT>>

\* archiveMessage for the file just handled; the rename fails when the file
\* is gone, and can fail otherwise.
Archive(k) ==
    LET t == ticks[k]
        a == Head(t.agents)
        message == Head(t.files)
    IN /\ t.pc = "archive"
       /\ \E renameFails \in
               IF message \in incoming[a] THEN BOOLEAN ELSE {TRUE} :
              LET w == ArchiveMessage(World, a, message, renameFails)
              IN /\ incoming' = w.incoming
                 /\ processed' = w.processed
       /\ ticks' = [ticks EXCEPT ![k] = NextFile(t)]
       /\ UNCHANGED <<pending, context, otherT>>

\* ----------------------------------------------- mcp-server.js: messages

\* A task document as a caller passes it: the title, every other field
\* absent.
TaskData(title) ==
    [id |-> None, type |-> None, title |-> title, priority |-> None,
     status |-> None, agent_id |-> None, created_by |-> None,
     target_agent_id |-> None, reference_task_id |-> None,
     dependencies |-> {}, deliverables |-> <<>>, blockReason |-> None]

\* MCPAgentServer.createTaskRequest: a TASK_REQUEST whose task_data is the
\* request with a fresh id, the receiver as owner and target and the sender
\* as creator.
McpCreateTaskRequest(fromAgentId, toAgentId, taskRequest) ==
    LET message ==
            Message(uuidv4, "TASK_REQUEST", fromAgentId, toAgentId,
                    <<[taskRequest EXCEPT
                          !.id = UuidNames[uuidCount + 2],
                          !.agent_id = toAgentId,
                          !.created_by = fromAgentId,
                          !.target_agent_id = toAgentId]>>)
    IN /\ uuidCount + 1 < MaxUuid
       /\ uuidCount' = uuidCount + 2
       /\ IF fromAgentId \notin dirs
          THEN /\ lastOp' = Op("task-request", FALSE)
               /\ UNCHANGED mailVars
          ELSE IF toAgentId \notin dirs
          THEN /\ outgoing' = [outgoing EXCEPT
                                  ![fromAgentId] = WriteFile(@, message)]
               /\ lastOp' = Op("task-request", FALSE)
               /\ UNCHANGED <<incoming, processed, dispatched>>
          ELSE /\ outgoing' = [outgoing EXCEPT
                                  ![fromAgentId] = WriteFile(@, message)]
               /\ incoming' = [incoming EXCEPT
                                  ![toAgentId] = WriteFile(@, message)]
               /\ lastOp' = OpRet("task-request", message.id)
               /\ UNCHANGED <<processed, dispatched>>
       /\ UNCHANGED <<queueVars, regVars, relVars, idleVars>>

\* The task/request handler; taskRequest is <<request>>, or <<>> when
\* absent.
TaskRequest(fromAgentId, toAgentId, taskRequest) ==
    IF fromAgentId = None \/ toAgentId = None \/ taskRequest = <<>>
    THEN /\ lastOp' = Op("task-request", FALSE)
         /\ UNCHANGED <<queueVars, regVars, relVars, idleVars,
                        mailVars, uuidCount>>
    ELSE McpCreateTaskRequest(fromAgentId, toAgentId, taskRequest[1])

\* A send that takes the sender's copy back when the receiver's write fails.
McpSendMessage_RollsBack(fromAgentId, toAgentId, messageType) ==
    LET message == Message(uuidv4, messageType, fromAgentId, toAgentId, <<>>)
    IN /\ uuidCount < MaxUuid
       /\ uuidCount' = uuidCount + 1
       /\ IF fromAgentId \notin dirs \/ toAgentId \notin dirs
          THEN /\ lastOp' = Op("message-send", FALSE)
               /\ UNCHANGED mailVars
          ELSE /\ outgoing' = [outgoing EXCEPT
                                  ![fromAgentId] = WriteFile(@, message)]
               /\ incoming' = [incoming EXCEPT
                                  ![toAgentId] = WriteFile(@, message)]
               /\ lastOp' = OpRet("message-send", message.id)
               /\ UNCHANGED <<processed, dispatched>>
       /\ UNCHANGED <<queueVars, regVars, relVars, idleVars>>

\* MCPAgentServer.sendMessage
McpSendMessage(fromAgentId, toAgentId, messageType) ==
    LET message == Message(uuidv4, messageType, fromAgentId, toAgentId, <<>>)
    IN /\ uuidCount < MaxUuid
       /\ uuidCount' = uuidCount + 1
       /\ IF fromAgentId \notin dirs
          THEN /\ lastOp' = Op("message-send", FALSE)
               /\ UNCHANGED mailVars
          ELSE IF toAgentId \notin dirs
          THEN /\ outgoing' = [outgoing EXCEPT
                                  ![fromAgentId] = WriteFile(@, message)]
               /\ lastOp' = Op("message-send", FALSE)
               /\ UNCHANGED <<incoming, processed, dispatched>>
          ELSE /\ outgoing' = [outgoing EXCEPT
                                  ![fromAgentId] = WriteFile(@, message)]
               /\ incoming' = [incoming EXCEPT
                                  ![toAgentId] = WriteFile(@, message)]
               /\ lastOp' = OpRet("message-send", message.id)
               /\ UNCHANGED <<processed, dispatched>>
       /\ UNCHANGED <<queueVars, regVars, relVars, idleVars>>

\* The message/send handler.
MessageSend(fromAgentId, toAgentId, messageType) ==
    IF fromAgentId = None \/ toAgentId = None \/ messageType = None
    THEN /\ lastOp' = Op("message-send", FALSE)
         /\ UNCHANGED <<queueVars, regVars, relVars, idleVars,
                        mailVars, uuidCount>>
    ELSE McpSendMessage(fromAgentId, toAgentId, messageType)

\* -------------------------------------------- mcp-server.js: the dispatcher

\* Method and tool names, character by character.

\* 'initialize'
initialize_method == <<"i", "n", "i", "t", "i", "a", "l", "i", "z", "e">>

\* 'initialized'
initialized_method ==
    <<"i", "n", "i", "t", "i", "a", "l", "i", "z", "e", "d">>

\* 'agent/register'
agent_register_method ==
    <<"a", "g", "e", "n", "t", "/", "r", "e", "g", "i", "s", "t", "e", "r">>

\* 'task/create'
task_create_method ==
    <<"t", "a", "s", "k", "/", "c", "r", "e", "a", "t", "e">>

\* 'task/request'
task_request_method ==
    <<"t", "a", "s", "k", "/", "r", "e", "q", "u", "e", "s", "t">>

\* 'task/update'
task_update_method ==
    <<"t", "a", "s", "k", "/", "u", "p", "d", "a", "t", "e">>

\* 'relationship/add'
relationship_add_method ==
    <<"r", "e", "l", "a", "t", "i", "o", "n", "s", "h", "i", "p", "/", "a",
      "d", "d">>

\* 'agent/status'
agent_status_method ==
    <<"a", "g", "e", "n", "t", "/", "s", "t", "a", "t", "u", "s">>

\* 'context/update'
context_update_method ==
    <<"c", "o", "n", "t", "e", "x", "t", "/", "u", "p", "d", "a", "t", "e">>

\* 'message/send'
message_send_method ==
    <<"m", "e", "s", "s", "a", "g", "e", "/", "s", "e", "n", "d">>

\* 'task/get'
task_get_method == <<"t", "a", "s", "k", "/", "g", "e", "t">>

\* 'tools/list'
tools_list_method == <<"t", "o", "o", "l", "s", "/", "l", "i", "s", "t">>

\* 'agent-register'
agent_register_tool ==
    <<"a", "g", "e", "n", "t", "-", "r", "e", "g", "i", "s", "t", "e", "r">>

\* 'agent-status'
agent_status_tool ==
    <<"a", "g", "e", "n", "t", "-", "s", "t", "a", "t", "u", "s">>

\* 'task-create'
task_create_tool == <<"t", "a", "s", "k", "-", "c", "r", "e", "a", "t", "e">>

\* 'task-get'
task_get_tool == <<"t", "a", "s", "k", "-", "g", "e", "t">>

\* 'task-request'
task_request_tool ==
    <<"t", "a", "s", "k", "-", "r", "e", "q", "u", "e", "s", "t">>

\* 'task-update'
task_update_tool == <<"t", "a", "s", "k", "-", "u", "p", "d", "a", "t", "e">>

\* 'relationship-add'
relationship_add_tool ==
    <<"r", "e", "l", "a", "t", "i", "o", "n", "s", "h", "i", "p", "-", "a",
      "d", "d">>

\* 'context-update'
context_update_tool ==
    <<"c", "o", "n", "t", "e", "x", "t", "-", "u", "p", "d", "a", "t", "e">>

\* 'message-send'
message_send_tool ==
    <<"m", "e", "s", "s", "a", "g", "e", "-", "s", "e", "n", "d">>

\* The methods setupHandlers registers a handler for, in that order.
MethodOrder ==
    <<initialize_method,
      initialized_method,
      agent_register_method,
      task_create_method,
      task_request_method,
      task_update_method,
      relationship_add_method,
      agent_status_method,
      context_update_method,
      message_send_method,
      task_get_method,
      tools_list_method>>

\* The aliases setupHandlers registers after them: <<alias, method>>.
AliasPairs ==
    <<<<agent_register_tool, agent_register_method>>,
      <<agent_status_tool, agent_status_method>>,
      <<task_create_tool, task_create_method>>,
      <<task_get_tool, task_get_method>>,
      <<task_request_tool, task_request_method>>,
      <<task_update_tool, task_update_method>>,
      <<relationship_add_tool, relationship_add_method>>,
      <<context_update_tool, context_update_method>>,
      <<message_send_tool, message_send_method>>>>

\* A function object: its identity, the object a bound function wraps (0 for
\* a plain function) and the handler of MethodOrder whose code it runs.
FunctionObject(obj, target, code) ==
    [obj |-> obj, target |-> target, code |-> code]

\* Map.prototype.set
MapSet(table, key, value) ==
    [k \in DOMAIN table \cup {key} |->
        IF k = key THEN value ELSE table[k]]

\* The first index of x in seq.
IndexOf(seq, x) == CHOOSE i \in 1..Len(seq) : seq[i] = x

\* The table after the handlers of the methods are set: one new function per
\* method.
MethodTable ==
    [m \in {MethodOrder[i] : i \in 1..Len(MethodOrder)} |->
        FunctionObject(IndexOf(MethodOrder, m), 0, IndexOf(MethodOrder, m))]

\* An alias that gets a function of its own.
Alias_NewHandler(table, alias, method) ==
    MapSet(table, alias,
           FunctionObject(Len(MethodOrder) + table[method].obj, 0,
                          table[method].code))

\* messageHandlers.set(alias, messageHandlers.get(method))
Alias(table, alias, method) == MapSet(table, alias, table[method])

RECURSIVE AddAliases(_, _)
AddAliases(table, pairs) ==
    IF pairs = <<>>
    THEN table
    ELSE AddAliases(Alias(table, Head(pairs)[1], Head(pairs)[2]), Tail(pairs))

\* MCPAgentServer.setupHandlers
SetupHandlers == AddAliases(MethodTable, AliasPairs)

\* The keys of the table in insertion order.
KeyOrder == MethodOrder \o [i \in 1..Len(AliasPairs) |-> AliasPairs[i][1]]

\* handler.bind(originalServer): a new function object that wraps handler.
Bind(handler, obj) == FunctionObject(obj, handler.obj, handler.code)

\* SharedMCPServer.setupHandlers: the table of a new MCPAgentServer, every
\* entry replaced by a bound function of its own.
SharedSetupHandlers ==
    LET original == SetupHandlers
    IN [k \in DOMAIN original |->
           Bind(original[k], Len(MethodOrder) + IndexOf(KeyOrder, k))]

\* The method whose handler code the function object runs.
HandlerCode(handler) == MethodOrder[handler.code]

\* The id of a response that carries none (null).
NullId == -1

\* JSON-RPC error codes.
MethodNotFound == -32601
InternalError == -32603

\* new MCPResponse(id, result, error); code 0 stands for a result.  result
\* is <<value>> when the response carries one, message is <<error>> when it
\* carries the message of a thrown error.
MCPResponse(id, code) ==
    [id |-> id, code |-> code, result |-> <<>>, message |-> <<>>]

\* What a handler returned: null when ret is None and result is <<>>.
ReturnValue(op) == [ret |-> op.ret, result |-> op.result]

\* What a handler threw.
ThrownError(op) == [op |-> op.op, errors |-> op.errors]

\* No response written yet.
NoResponse == MCPResponse(NullId, 0)

\* A "method not found" answer that loses the request id.
NotFound_DropsId(id) == MCPResponse(NullId, MethodNotFound)

\* The answer to a request whose method is not in the table.
NotFound(id) == MCPResponse(id, MethodNotFound)

\* The answer when the handler threw: the stdio server answers with id null,
\* the shared server with message.id || null.
Failed(id) ==
    MCPResponse(IF transport = "stdio" \/ id = 0 THEN NullId ELSE id,
                InternalError)

\* A response to a returning handler that leaves the value out.
Returned_NoValue(id, op) == MCPResponse(id, 0)

\* new MCPResponse(request.id, result)
Returned(id, op) ==
    [MCPResponse(id, 0) EXCEPT !.result = <<ReturnValue(op)>>]

\* The catch block: code -32603 and error.message.
Threw(id, op) == [Failed(id) EXCEPT !.message = <<ThrownError(op)>>]

\* MCPAgentServer.handleMessage and SharedMCPServer.handleMessage; method is
\* <<>> when the request has none.
McpHandleMessage(id, method, params) ==
    IF method = <<>> \/ method \notin DOMAIN messageHandlers
    THEN /\ response' = NotFound(id)
         /\ UNCHANGED <<queueVars, regVars, relVars, mailVars, idleVars,
                        uuidCount, lastOp>>
    ELSE LET code == HandlerCode(messageHandlers[method])
         IN /\ CASE code = initialize_method ->
                        /\ lastOp' = OpRet("initialize", "capabilities")
                        /\ UNCHANGED <<queueVars, regVars, relVars, mailVars,
                                       idleVars, uuidCount>>
                 [] code = initialized_method ->
                        /\ lastOp' = Op("initialized", TRUE)
                        /\ UNCHANGED <<queueVars, regVars, relVars, mailVars,
                                       idleVars, uuidCount>>
                 [] code = agent_register_method ->
                        AgentRegister(params.agentId, params.capabilities,
                                      params.forceUpdate)
                 [] code = task_create_method ->
                        TaskCreate(params.agentId, params.task,
                                   params.createdBy)
                 [] code = relationship_add_method ->
                        RelationshipAdd(params.agentId, params.targetAgentId,
                                        params.relationshipType)
                 [] code = message_send_method ->
                        MessageSend(params.fromAgentId, params.toAgentId,
                                    params.messageType)
            /\ response' = IF lastOp'.ok THEN Returned(id, lastOp')
                           ELSE Threw(id, lastOp')

\* ------------------------------------------------ test-tool-names.js

Letters ==
    {"a", "b", "c", "d", "e", "f", "g", "h", "i", "j", "k", "l", "m", "n",
     "o", "p", "q", "r", "s", "t", "u", "v", "w", "x", "y", "z",
     "A", "B", "C", "D", "E", "F", "G", "H", "I", "J", "K", "L", "M", "N",
     "O", "P", "Q", "R", "S", "T", "U", "V", "W", "X", "Y", "Z"}

Digits == {"0", "1", "2", "3", "4", "5", "6", "7", "8", "9"}

\* The longest tool name the pattern accepts.
MaxToolNameLength == 64

\* /^[a-zA-Z0-9_-]{1,64}$/.test(toolName)
testToolNamePattern(toolName) ==
    /\ Len(toolName) \in 1..MaxToolNameLength
    /\ \A i \in 1..Len(toolName) :
           toolName[i] \in Letters \cup Digits \cup {"_", "-"}

\* ------------------------------------------------------------------- Init

\* ------------------------------------- mcp-server-shared.js: connections

\* The most messages sent on a socket and the most requests in handling.
MaxSent == 2
MaxInflight == 2

\* The welcome notification.
Welcome(id) == [method |-> "server/welcome", clientId |-> id]

\* The socket is open: its client is in connectedClients.
IsOpen(ws) == \E client \in connectedClients : client.ws = ws

\* connectedClients.set(clientId, {id, ws, ...})
SetClient(id, ws) ==
    {client \in connectedClients : client.id # id}
        \cup {[id |-> id, ws |-> ws]}

\* A server that answers on every open socket.
Send_ToAll(ws, message) ==
    [w \in Sockets |-> IF IsOpen(w) THEN Append(sent[w], message)
                       ELSE sent[w]]

\* ws.send(message): nothing goes out on a closed socket.
Send(ws, message) ==
    IF IsOpen(ws) THEN [sent EXCEPT ![ws] = Append(@, message)] ELSE sent

\* SharedMCPServer.handleConnection, for a socket that just connected.
HandleConnection(ws) ==
    /\ clientId[ws] = None
    /\ uuidCount < MaxUuid
    /\ uuidCount' = uuidCount + 1
    /\ clientId' = [clientId EXCEPT ![ws] = uuidv4]
    /\ readyState' = [readyState EXCEPT ![ws] = "OPEN"]
    /\ connectedClients' = SetClient(uuidv4, ws)
    /\ sent' = [sent EXCEPT ![ws] = Append(@, Welcome(uuidv4))]
    /\ UNCHANGED <<queueVars, regVars, relVars, mailVars, idleVars,
                   response, proxyVars, inflight, lastOp>>

\* ws.on('message'), up to the call of handleMessage: the request is parsed
\* and its handling begins.
OnMessage(ws, id, method, params) ==
    LET request == [ws |-> ws, id |-> id, method |-> method,
                    params |-> params]
    IN /\ IsOpen(ws)
       /\ request \notin inflight
       /\ Cardinality(inflight) < MaxInflight
       /\ inflight' = inflight \cup {request}
       /\ UNCHANGED <<queueVars, regVars, relVars, mailVars, idleVars,
                      response, proxyVars, clientId, readyState,
                      connectedClients, sent, uuidCount, lastOp>>

\* ws.on('message') for data that is not JSON: the catch block answers.
OnGarbage(ws) ==
    /\ IsOpen(ws)
    /\ Len(sent[ws]) < MaxSent
    /\ sent' = Send(ws, MCPResponse(NullId, InternalError))
    /\ UNCHANGED <<queueVars, regVars, relVars, mailVars, idleVars,
                   response, proxyVars, clientId, readyState,
                   connectedClients, inflight, uuidCount, lastOp>>

\* ws.on('message'), from handleMessage on: the handler runs and the response
\* goes out on the socket of the callback.
Respond(request) ==
    /\ request \in inflight
    /\ Len(sent[request.ws]) < MaxSent
    /\ McpHandleMessage(request.id, request.method, request.params)
    /\ inflight' = inflight \ {request}
    /\ sent' = Send(request.ws, response')
    /\ UNCHANGED <<proxyVars, clientId, readyState, connectedClients>>

\* ws.on('close') and ws.on('error'): the connection has ended.
OnClose(ws) ==
    /\ IsOpen(ws)
    /\ readyState' = [readyState EXCEPT ![ws] = "CLOSED"]
    /\ connectedClients' =
           {client \in connectedClients : client.id # clientId[ws]}
    /\ UNCHANGED <<queueVars, regVars, relVars, mailVars, idleVars,
                   response, proxyVars, clientId, inflight, sent,
                   uuidCount, lastOp>>

\* SharedMCPServer.getServerStatus: the counts of the status document.
GetServerStatus ==
    [connectedClients |-> Cardinality(connectedClients),
     connectedAgents |-> Cardinality(sharedConnectedAgents)]

\* ------------------------------------------------------- mcp-proxy.js

\* The methods the proxy knows besides those of the table.
tools_call_method == <<"t", "o", "o", "l", "s", "/", "c", "a", "l", "l">>
resources_list_method ==
    <<"r", "e", "s", "o", "u", "r", "c", "e", "s", "/", "l", "i", "s", "t">>
prompts_list_method ==
    <<"p", "r", "o", "m", "p", "t", "s", "/", "l", "i", "s", "t">>
ping_method == <<"p", "i", "n", "g">>

\* methodMap: tool names to the method names of the shared server.
MethodMap ==
    <<<<agent_register_tool, agent_register_method>>,
      <<agent_status_tool, agent_status_method>>,
      <<task_create_tool, task_create_method>>,
      <<task_request_tool, task_request_method>>,
      <<task_update_tool, task_update_method>>,
      <<relationship_add_tool, relationship_add_method>>,
      <<context_update_tool, context_update_method>>,
      <<message_send_tool, message_send_method>>>>

\* methodMap[toolName] || toolName
ServerMethod(toolName) ==
    IF \E i \in 1..Len(MethodMap) : MethodMap[i][1] = toolName
    THEN MethodMap[CHOOSE i \in 1..Len(MethodMap) :
                       MethodMap[i][1] = toolName][2]
    ELSE toolName

\* const allowedBeforeInit = ['initialize', 'initialized', 'ping']
allowedBeforeInit == {initialize_method, initialized_method, ping_method}

\* A response the proxy writes: code 0 stands for a result, body names what
\* the result holds.
ProxyResponse(id, code, body) == [id |-> id, code |-> code, body |-> body]

\* Nothing written yet.
NoOutput == ProxyResponse(NullId, 0, "none")

\* The catch block: request.id ? request.id : null, code -32603.
ProxyError(id) ==
    ProxyResponse(IF id = 0 THEN NullId ELSE id, InternalError, "error")

\* The most requests the proxy forwards.
MaxForwarded == 2

\* this.client.request(method, params) and the response written after it:
\* the request goes out unless the client is not connected, and the shared
\* server answers with a result or with an error, or not in time.
Forward(id, method, params, body) ==
    \E reply \in {"result", "error", "not connected"} :
        /\ Len(forwarded) < MaxForwarded
        /\ forwarded' = IF reply = "not connected"
                        THEN forwarded
                        ELSE Append(forwarded,
                                    [method |-> method, params |-> params])
        /\ stdout' = IF reply = "result"
                     THEN ProxyResponse(id, 0, body)
                     ELSE ProxyError(id)
        /\ UNCHANGED initialized

\* !this.initialized && !allowedBeforeInit.includes(request.method)
Gate(method) == ~initialized /\ method \notin allowedBeforeInit

\* MCPProxy.handleStdinMessage; params is <<>> when the request has none,
\* <<[name |-> ..., arguments |-> ...]>> for a tool call.
HandleStdinMessage(id, method, params) ==
    /\ IF method = initialize_method
       THEN /\ stdout' = ProxyResponse(id, 0, "capabilities")
            /\ UNCHANGED <<initialized, forwarded>>
       ELSE IF method = initialized_method
       THEN /\ initialized' = TRUE
            /\ UNCHANGED <<forwarded, stdout>>
       ELSE IF method = tools_list_method
       THEN /\ stdout' = ProxyResponse(id, 0, "tools")
            /\ UNCHANGED <<initialized, forwarded>>
       ELSE IF method = resources_list_method
       THEN /\ stdout' = ProxyResponse(id, 0, "resources")
            /\ UNCHANGED <<initialized, forwarded>>
       ELSE IF method = prompts_list_method
       THEN /\ stdout' = ProxyResponse(id, 0, "prompts")
            /\ UNCHANGED <<initialized, forwarded>>
       ELSE IF method = tools_call_method
       THEN IF params = <<>>
            THEN /\ stdout' = ProxyError(id)
                 /\ UNCHANGED <<initialized, forwarded>>
            ELSE Forward(id, ServerMethod(params[1].name),
                         params[1].arguments, "text")
       ELSE IF Gate(method)
       THEN /\ stdout' = ProxyError(id)
            /\ UNCHANGED <<initialized, forwarded>>
       ELSE Forward(id, method, params, "result")
    /\ UNCHANGED <<queueVars, regVars, relVars, mailVars, idleVars,
                   response, connVars, uuidCount, lastOp>>

\* ------------------------------------------------------ SharedMCPClient

\* The requests a client issues in a run.
MaxRequests == 2

\* this.maxReconnectAttempts
maxReconnectAttempts == 5

\* this.reconnectDelay, in milliseconds
reconnectDelay == 1000

\* What the client leaves alone: the servers and their stores.
otherClient == <<queueVars, regVars, relVars, mailVars, transport,
                 messageHandlers, sharedConnectedAgents, pollVars, callVars,
                 response, netVars, uuidCount>>

\* The SharedMCPClient constructor.
NoClient ==
    /\ isConnected = FALSE
    /\ clientWs = None
    /\ pendingRequests = {}
    /\ messageId = 1
    /\ reconnectAttempts = 0
    /\ requestTimers = {}
    /\ reconnectTimers = {}
    /\ unanswered = {}
    /\ settled = [id \in 1..MaxRequests |-> <<>>]

\* SharedMCPClient.connect, called by the user of a new client: a socket is
\* made and its handlers are set.
Connect ==
    /\ clientWs = None
    /\ clientWs' = "CONNECTING"
    /\ lastOp' = Op("connect", TRUE)
    /\ UNCHANGED <<isConnected, pendingRequests, messageId, reconnectAttempts,
                   requestTimers, reconnectTimers, unanswered, settled,
                   otherClient>>

\* ws.on('open')
OnOpen ==
    /\ clientWs = "CONNECTING"
    /\ clientWs' = "OPEN"
    /\ isConnected' = TRUE
    /\ reconnectAttempts' = 0
    /\ lastOp' = Op("open", TRUE)
    /\ UNCHANGED <<pendingRequests, messageId, requestTimers,
                   reconnectTimers, unanswered, settled, otherClient>>

\* A reconnect that is scheduled whatever the counter says.
AttemptReconnect_Uncapped ==
    /\ reconnectAttempts' = reconnectAttempts + 1
    /\ reconnectTimers' =
           reconnectTimers \cup {reconnectDelay * (reconnectAttempts + 1)}

\* SharedMCPClient.attemptReconnect
AttemptReconnect ==
    IF reconnectAttempts >= maxReconnectAttempts
    THEN UNCHANGED <<reconnectAttempts, reconnectTimers>>
    ELSE /\ reconnectAttempts' = reconnectAttempts + 1
         /\ reconnectTimers' =
                reconnectTimers
                    \cup {reconnectDelay * (reconnectAttempts + 1)}

\* ws.on('close'): the socket has closed, because the attempt failed, the
\* connection was lost or the client closed it; what the server owed on it
\* is not delivered.
OnCloseEvent ==
    /\ clientWs \in {"CONNECTING", "OPEN", "CLOSING"}
    /\ clientWs' = "CLOSED"
    /\ isConnected' = FALSE
    /\ AttemptReconnect
    /\ unanswered' = {}
    /\ lastOp' = Op("close", TRUE)
    /\ UNCHANGED <<pendingRequests, messageId, requestTimers, settled,
                   otherClient>>

\* The callback of the timer attemptReconnect set: connect() once more.
ReconnectTimerFires(delay) ==
    /\ delay \in reconnectTimers
    /\ reconnectTimers' = reconnectTimers \ {delay}
    /\ clientWs' = "CONNECTING"
    /\ lastOp' = Op("reconnect", TRUE)
    /\ UNCHANGED <<isConnected, pendingRequests, messageId,
                   reconnectAttempts, requestTimers, unanswered, settled,
                   otherClient>>

\* SharedMCPClient.request: it throws when not connected; else it takes the
\* next id, stores the resolvers under it, sends the message and sets the
\* timeout.
ClientRequest ==
    IF ~isConnected
    THEN /\ lastOp' = Op("request", FALSE)
         /\ UNCHANGED <<clientVars, otherClient>>
    ELSE /\ messageId <= MaxRequests
         /\ messageId' = messageId + 1
         /\ pendingRequests' = pendingRequests \cup {messageId}
         /\ requestTimers' = requestTimers \cup {messageId}
         /\ unanswered' = unanswered \cup {messageId}
         /\ lastOp' = Op("request", TRUE)
         /\ UNCHANGED <<isConnected, clientWs, reconnectAttempts,
                        reconnectTimers, settled, otherClient>>

\* A client that settles the promise of every response that carries an id.
ClientHandleMessage_NoLookup(id, isError) ==
    /\ pendingRequests' = pendingRequests \ {id}
    /\ settled' = [settled EXCEPT
                      ![id] = Append(@, IF isError THEN "error" ELSE "result")]

\* SharedMCPClient.handleMessage for a response: the entry of its id is
\* deleted and its promise rejected or resolved; a response whose id is not
\* in the table is dropped.
ClientHandleMessage(id, isError) ==
    IF id \in pendingRequests
    THEN /\ pendingRequests' = pendingRequests \ {id}
         /\ settled' = [settled EXCEPT
                  ![id] = Append(@, IF isError THEN "error" ELSE "result")]
    ELSE UNCHANGED <<pendingRequests, settled>>

\* ws.on('message'): the server answers a request it got on this socket.
OnResponse(id, isError) ==
    /\ clientWs = "OPEN"
    /\ id \in unanswered
    /\ unanswered' = unanswered \ {id}
    /\ ClientHandleMessage(id, isError)
    /\ lastOp' = Op("message", TRUE)
    /\ UNCHANGED <<isConnected, clientWs, messageId, reconnectAttempts,
                   requestTimers, reconnectTimers, otherClient>>

\* The callback of the timeout request set, 30 seconds after the send.
RequestTimeout(id) ==
    /\ id \in requestTimers
    /\ requestTimers' = requestTimers \ {id}
    /\ IF id \in pendingRequests
       THEN /\ pendingRequests' = pendingRequests \ {id}
            /\ settled' = [settled EXCEPT ![id] = Append(@, "timeout")]
       ELSE UNCHANGED <<pendingRequests, settled>>
    /\ lastOp' = Op("timeout", TRUE)
    /\ UNCHANGED <<isConnected, clientWs, messageId, reconnectAttempts,
                   reconnectTimers, unanswered, otherClient>>

\* SharedMCPClient.disconnect: ws.close() on a socket that is not closed
\* makes it close, and its 'close' event follows.
Disconnect ==
    /\ IF clientWs = None
       THEN UNCHANGED <<isConnected, clientWs>>
       ELSE /\ isConnected' = FALSE
            /\ clientWs' = IF clientWs \in {"CONNECTING", "OPEN"}
                           THEN "CLOSING"
                           ELSE clientWs
    /\ lastOp' = Op("disconnect", TRUE)
    /\ UNCHANGED <<pendingRequests, messageId, reconnectAttempts,
                   requestTimers, reconnectTimers, unanswered, settled,
                   otherClient>>

\* ------------------------------------------------------- initial states

\* No proxy output, no connection.
NoNetwork ==
    /\ initialized = FALSE
    /\ forwarded = <<>>
    /\ stdout = NoOutput
    /\ clientId = [ws \in Sockets |-> None]
    /\ readyState = [ws \in Sockets |-> None]
    /\ sharedConnectedAgents = {}
    /\ connectedClients = {}
    /\ inflight = {}
    /\ sent = [ws \in Sockets |-> <<>>]
    /\ NoClient

\* The number of createTask calls that can be in flight at a time.
MaxCalls == 2

\* A slot without a call.
NoCall == [pc |-> "done", agentId |-> None, task |-> <<>>, read |-> <<>>]

\* A call suspended at its write: what it read and what it pushes.
Call(pc, agentId, entry, read) ==
    [pc |-> pc, agentId |-> agentId, task |-> <<entry>>, read |-> <<read>>]

\* The calls suspended at the write of a relationship registry.
PendingRelationshipWrites ==
    Cardinality({c \in 1..MaxCalls : calls[c].pc = "write-relationships"})

\* What a step of a call leaves alone besides the store it works on.
otherC == <<regVars, mailVars, tableVars, pollVars, response, netVars>>

\* MCPAgentServer.createTask up to the end of its read: the task is built
\* and pending.json is read; the call is suspended before its write.
CreateTaskRead(c, a, taskData) ==
    /\ calls[c].pc = "done"
    /\ uuidCount < MaxUuid
    /\ uuidCount' = uuidCount + 1
    /\ calls' = [calls EXCEPT ![c] =
           Call("write-pending", a, NewTask(a, taskData, None), pending[a])]
    /\ UNCHANGED <<queueVars, relVars, reported, lastOp, otherC>>

\* A write that pushes onto the collection as it is in the store now.
CreateTaskWrite_Merges(c) ==
    LET call == calls[c]
    IN /\ call.pc = "write-pending"
       /\ calls' = [calls EXCEPT ![c] = NoCall]
       /\ pending' = [pending EXCEPT
                         ![call.agentId] = Append(@, call.task[1])]
       /\ reported' = reported \cup {<<"task", call.task[1].id, None>>}
       /\ lastOp' = OpRet("task-create", call.task[1].id)
       /\ UNCHANGED <<active, completed, relVars, uuidCount, otherC>>

\* MCPAgentServer.createTask from its push on: the collection it read, with
\* the task pushed, is written over pending.json and the id is returned;
\* writeFile throws when the directory is missing.
CreateTaskWrite(c) ==
    LET call == calls[c]
    IN /\ call.pc = "write-pending"
       /\ calls' = [calls EXCEPT ![c] = NoCall]
       /\ IF call.agentId \notin dirs
          THEN /\ lastOp' = Op("task-create", FALSE)
               /\ UNCHANGED <<pending, reported>>
          ELSE /\ pending' = [pending EXCEPT ![call.agentId] =
                      Append(call.read[1], call.task[1])]
               /\ reported' =
                      reported \cup {<<"task", call.task[1].id, None>>}
               /\ lastOp' = OpRet("task-create", call.task[1].id)
       /\ UNCHANGED <<active, completed, relVars, uuidCount, otherC>>

\* MCPAgentServer.addRelationship up to the end of its read.
AddRelationshipRead(c, agentId, targetAgentId, relationshipType) ==
    /\ calls[c].pc = "done"
    /\ TotalRelationships + PendingRelationshipWrites < MaxRelationships
    /\ calls' = [calls EXCEPT ![c] =
           Call("write-relationships", agentId,
                Relationship(targetAgentId, relationshipType),
                relationships[agentId])]
    /\ UNCHANGED <<queueVars, relVars, uuidCount, reported, lastOp, otherC>>

\* MCPAgentServer.addRelationship from its push on: the registry it read,
\* with the entry pushed onto the category of its type, is written over
\* relationships.json.
AddRelationshipWrite(c) ==
    LET call == calls[c]
        entry == call.task[1]
    IN /\ call.pc = "write-relationships"
       /\ calls' = [calls EXCEPT ![c] = NoCall]
       /\ IF call.agentId \notin dirs
          THEN /\ lastOp' = Op("relationship-add", FALSE)
               /\ UNCHANGED <<relationships, reported>>
          ELSE /\ relationships' = [relationships EXCEPT ![call.agentId] =
                      IF CategoryOf(entry.type) = None
                      THEN call.read[1]
                      ELSE [call.read[1] EXCEPT
                               ![CategoryOf(entry.type)] = Append(@, entry)]]
               /\ reported' = reported
                      \cup {<<"relationship", entry.agentId, entry.type>>}
               /\ lastOp' = OpRet("relationship-add", "added")
       /\ UNCHANGED <<queueVars, uuidCount, otherC>>

\* No timer is set, no tick and no createTask call is in flight.
NoSteps ==
    /\ isRunning = FALSE
    /\ watchInterval = NoTimer
    /\ timers = {}
    /\ ticks = [k \in 1..MaxTicks |-> NoTick]
    /\ calls = [c \in 1..MaxCalls |-> NoCall]
    /\ reported = {}

Init ==
    /\ pending = [a \in Agents |-> <<>>]
    /\ active = [a \in Agents |-> <<>>]
    /\ completed = [a \in Agents |-> <<>>]
    /\ dirs = {}
    /\ context = [a \in Agents |-> <<>>]
    /\ mcpConfig = [a \in Agents |-> NoConfig]
    /\ connectedAgents = [a \in Agents |-> NotConnected]
    /\ sysAgents = [a \in Agents |-> NoAgent]
    /\ registeredAgents = [a \in Agents |-> NoAgent]
    /\ objCount = 0
    /\ clock = 1
    /\ relationships = [a \in Agents |-> DefaultRelationships]
    /\ outgoing = [a \in Agents |-> {}]
    /\ incoming = [a \in Agents |-> {}]
    /\ processed = [a \in Agents |-> {}]
    /\ dispatched = <<>>
    /\ transport = "stdio"
    /\ messageHandlers = SetupHandlers
    /\ response = NoResponse
    /\ NoNetwork
    /\ NoSteps
    /\ uuidCount = 0
    /\ lastOp = Op("init", TRUE)

\* The state after system.registerAgent("a") and system.registerAgent("b").
InitRegistered ==
    /\ pending = [a \in Agents |-> <<>>]
    /\ active = [a \in Agents |-> <<>>]
    /\ completed = [a \in Agents |-> <<>>]
    /\ dirs = Agents
    /\ context = [a \in Agents |-> DefaultContext]
    /\ mcpConfig = [a \in Agents |-> DefaultMcpConfig]
    /\ connectedAgents = [a \in Agents |-> NotConnected]
    /\ sysAgents = [a \in Agents |-> IF a = "a" THEN 1 ELSE 2]
    /\ registeredAgents = sysAgents
    /\ objCount = 2
    /\ clock = 1
    /\ relationships = [a \in Agents |-> DefaultRelationships]
    /\ outgoing = [a \in Agents |-> {}]
    /\ incoming = [a \in Agents |-> {}]
    /\ processed = [a \in Agents |-> {}]
    /\ dispatched = <<>>
    /\ transport = "stdio"
    /\ messageHandlers = SetupHandlers
    /\ response = NoResponse
    /\ NoNetwork
    /\ NoSteps
    /\ uuidCount = 0
    /\ lastOp = OpRet("registerAgent", "b")

\* ------------------------------------------- the task queue specification

\* The tasks a caller enqueues: implementation tasks of the agent with a
\* caller-chosen id and the default status; t2 depends on t1.
QueueTasks(a) ==
    {Task("t1", "implementation", "T", "pending", a, a, None, None, {}, <<>>),
     Task("t2", "implementation", "T", "pending", a, a, None, None, {"t1"},
          <<>>)}

NextQueue ==
    \/ \E a \in Agents : \E t \in QueueTasks(a) :
           AddTask(a, t) /\ UNCHANGED <<response, netVars>>
    \/ \E a \in Agents, id \in TaskIds :
           ActivateTask(a, id) /\ UNCHANGED <<response, netVars>>
    \/ \E a \in Agents, id \in TaskIds :
           CompleteTask(a, id, <<>>) /\ UNCHANGED <<response, netVars>>
    \/ \E a \in Agents, id \in TaskIds :
           BlockTask(a, id, None) /\ UNCHANGED <<response, netVars>>
    \/ \E a \in Agents, id \in TaskIds :
           UnblockTask(a, id) /\ UNCHANGED <<response, netVars>>
    \/ \E a \in Agents, id \in TaskIds, st \in Statuses :
           UpdateTaskStatus(a, id, st, <<>>) /\ UNCHANGED <<response, netVars>>

SpecQueue == InitRegistered /\ [][NextQueue]_vars

\* ------------------------------------------------ the task specification

\* The most deliverables a task lists.
MaxDeliverables == 2

\* The task documents the callers of task-create pass: one with a
\* deliverable, one without a title, a request without a target.
TaskPayloads ==
    {[TaskData("T") EXCEPT !.deliverables = <<"d1">>],
     TaskData(None),
     [TaskData("T") EXCEPT !.type = "request"]}

\* The tasks the callers of addTask pass: a valid one, one without a title
\* and with a priority outside the set, a response without a reference.
EnqueuedTasks(a) ==
    {Task("t1", "implementation", "T", "pending", a, a, None, None, {},
          <<"d1">>),
     [Task("t1", "implementation", None, "pending", a, a, None, None, {},
           <<>>) EXCEPT !.priority = "urgent"],
     Task("t1", "response", "T", "pending", a, a, None, None, {}, <<>>)}

\* The deliverables the callers supply.
Supplied == {<<>>, <<"d1">>, <<"d1", "d1">>}

\* The ids the callers name.
UpdatedIds == {"u1", "t1"}

\* The deliverables of the first task with the id, in the order of the
\* files updateTaskStatus reads.
Listed(a, taskId) ==
    IF FileOf(a, taskId) = None
    THEN <<>>
    ELSE UpdatedTask(a, taskId, "pending", <<>>).deliverables

\* Agent b's tasks are created and updated through the dispatcher, agent
\* a's through its TaskQueue.
NextTask ==
    \/ \E t \in TaskPayloads, c \in {None, "a"} :
           TaskCreate("b", <<t>>, c) /\ UNCHANGED <<response, netVars>>
    \/ \E a \in {"b", None}, id \in UpdatedIds,
          st \in {"in_progress", "completed"}, dl \in Supplied :
           /\ a # None => Len(Listed(a, id)) + Len(dl) <= MaxDeliverables
           /\ dl # <<>> => st = "completed"
           /\ TaskUpdate(a, id, st, dl)
           /\ UNCHANGED <<response, netVars>>
    \/ \E t \in EnqueuedTasks("a") :
           AddTask("a", t) /\ UNCHANGED <<response, netVars>>
    \/ ActivateTask("a", "t1") /\ UNCHANGED <<response, netVars>>
    \/ \E dl \in Supplied :
           /\ Len(Listed("a", "t1")) + Len(dl) <= MaxDeliverables
           /\ CompleteTask("a", "t1", dl)
           /\ UNCHANGED <<response, netVars>>

SpecTask == InitRegistered /\ [][NextTask]_vars

\* ------------------------------------------ the registration specification

Capabilities == {"c1", "c2"}

NextRegister ==
    \/ \E a \in Agents \cup {None}, c \in Capabilities, f \in BOOLEAN :
           AgentRegister(a, c, f) /\ UNCHANGED <<response, netVars>>
    \/ \E a \in Agents : SystemRegisterAgent(a) /\ UNCHANGED <<response, netVars>>
    \/ Tick /\ UNCHANGED <<response, netVars>>

SpecRegister == Init /\ [][NextRegister]_vars

\* --------------------------------------- the re-registration specification

\* Agent a registers on both routes, any number of times, while it holds
\* tasks, relationships and context entries.
NextReRegister ==
    \/ \E c \in Capabilities, f \in BOOLEAN :
           AgentRegister("a", c, f) /\ UNCHANGED <<response, netVars>>
    \/ SystemRegisterAgent("a") /\ UNCHANGED <<response, netVars>>
    \/ /\ sysAgents["a"] # NoAgent
       /\ \E t \in QueueTasks("a") : AddTask("a", t)
       /\ UNCHANGED <<response, netVars>>
    \/ /\ sysAgents["a"] # NoAgent
       /\ ActivateTask("a", "t1")
       /\ UNCHANGED <<response, netVars>>
    \/ /\ sysAgents["a"] # NoAgent
       /\ CompleteTask("a", "t1", <<>>)
       /\ UNCHANGED <<response, netVars>>
    \/ /\ sysAgents["a"] # NoAgent
       /\ AddConsumer("a", "b")
       /\ UNCHANGED <<response, netVars>>
    \/ RelationshipAdd("a", "b", "producer") /\ UNCHANGED <<response, netVars>>

SpecReRegister == Init /\ [][NextReRegister]_vars

\* ------------------------------------------ the relationship specification

RelationshipTypes == {"consumer", "producer", "bidirectional", "optional",
                      "other"}

NextRelationship ==
    \/ \E a \in Agents, o \in Agents :
           AddConsumer(a, o) /\ UNCHANGED <<response, netVars>>
    \/ \E a \in Agents, o \in Agents :
           AddProducer(a, o) /\ UNCHANGED <<response, netVars>>
    \/ \E a \in Agents, o \in Agents :
           AddBidirectionalRelationship(a, o) /\ UNCHANGED <<response, netVars>>
    \/ \E a \in Agents, o \in Agents :
           AddOptionalRelationship(a, o) /\ UNCHANGED <<response, netVars>>
    \/ \E a \in Agents, o \in Agents :
           RemoveRelationship(a, o) /\ UNCHANGED <<response, netVars>>
    \/ \E a \in Agents \cup {None}, o \in Agents,
          t \in RelationshipTypes :
           RelationshipAdd(a, o, t) /\ UNCHANGED <<response, netVars>>

SpecRelationship == InitRegistered /\ [][NextRelationship]_vars

\* ----------------------------------------------- the mailbox specification

\* The types a caller of message-send passes: one that has a handler, one
\* that has none.
SentTypes == {"CONTEXT_SYNC", "CUSTOM"}

NextMail ==
    \/ \E f \in Agents, t \in Agents, title \in {"T", None} :
           CreateTaskRequest(f, t, title) /\ UNCHANGED <<response, netVars>>
    \/ \E f \in Agents \cup {None}, t \in Agents, ty \in SentTypes :
           MessageSend(f, t, ty) /\ UNCHANGED <<response, netVars>>
    \/ \E f \in {"a", None}, r \in {<<>>, <<TaskData("T")>>} :
           TaskRequest(f, "b", r) /\ UNCHANGED <<response, netVars>>
    \/ PollForMessages /\ UNCHANGED <<response, netVars>>

SpecMail == InitRegistered /\ [][NextMail]_vars

\* ------------------------------------- the message handler specification

\* What callers of message-send pass: every handled type for b, one of them
\* for a as well.  A TASK_REQUEST sent with message-send carries no task, so
\* addTask rejects it on receipt.
HandledSends ==
    {<<"b", ty>> : ty \in MessageTypes} \cup {<<"a", "CONTEXT_SYNC">>}

NextHandlers ==
    \/ \E send \in HandledSends :
           MessageSend("a", send[1], send[2]) /\ UNCHANGED <<response, netVars>>
    \/ TaskRequest("a", "b", <<TaskData("T")>>)
           /\ UNCHANGED <<response, netVars>>
    \/ PollForMessages /\ UNCHANGED <<response, netVars>>

SpecHandlers == InitRegistered /\ [][NextHandlers]_vars

\* ------------------------------------------- the blocking specification

\* The reasons the callers of blockTask give: none, or one.
Reasons == {None, "r1"}

\* Agent a enqueues and activates tasks, and blocks and unblocks them.
NextBlock ==
    \/ \E t \in QueueTasks("a") :
           AddTask("a", t) /\ UNCHANGED <<response, netVars>>
    \/ \E id \in TaskIds :
           ActivateTask("a", id) /\ UNCHANGED <<response, netVars>>
    \/ \E id \in TaskIds :
           CompleteTask("a", id, <<>>) /\ UNCHANGED <<response, netVars>>
    \/ \E id \in TaskIds, reason \in Reasons :
           BlockTask("a", id, reason) /\ UNCHANGED <<response, netVars>>
    \/ \E id \in TaskIds :
           UnblockTask("a", id) /\ UNCHANGED <<response, netVars>>

SpecBlock == InitRegistered /\ [][NextBlock]_vars

\* ---------------------------------------------- the sending specification

\* Agents register one after the other through agent/register, and messages
\* are sent between them before and after: a receiver that has not
\* registered has no incoming directory.
NextSend ==
    \/ \E a \in Agents, c \in Capabilities :
           AgentRegister(a, c, FALSE) /\ UNCHANGED <<response, netVars>>
    \/ \E f \in Agents, t \in Agents, ty \in SentTypes :
           MessageSend(f, t, ty) /\ UNCHANGED <<response, netVars>>

SpecSend == Init /\ [][NextSend]_vars

\* ------------------------------------- the interleaving specification

\* Calls of task/create on the registered agents and of relationship/add
\* on "a", each suspended between its read and its write while others run.
NextCalls ==
    \/ \E c \in 1..MaxCalls, a \in Agents :
           CreateTaskRead(c, a, TaskData("T"))
    \/ \E c \in 1..MaxCalls : CreateTaskWrite(c)
    \/ \E c \in 1..MaxCalls, ty \in {"consumer", "producer"} :
           AddRelationshipRead(c, "a", "b", ty)
    \/ \E c \in 1..MaxCalls : AddRelationshipWrite(c)

SpecCalls == InitRegistered /\ [][NextCalls]_vars

\* ----------------------------------------------- the client specification

\* A client connects, issues requests, is answered or not, loses its
\* connection, reconnects and is disconnected by its user.
NextClient ==
    \/ Connect
    \/ OnOpen
    \/ OnCloseEvent
    \/ \E delay \in reconnectTimers : ReconnectTimerFires(delay)
    \/ ClientRequest
    \/ \E id \in 1..MaxRequests, isError \in BOOLEAN : OnResponse(id, isError)
    \/ \E id \in 1..MaxRequests : RequestTimeout(id)
    \/ Disconnect

SpecClient == Init /\ [][NextClient]_vars

\* The event loop runs the callback of every timeout that is set.
SpecClientFair ==
    SpecClient /\ \A id \in 1..MaxRequests : WF_vars(RequestTimeout(id))

\* ------------------------------------- the unknown-names specification

\* Agent a registers and is given tasks; b never registers.  Tasks are
\* updated and read and the status is asked for under both names and under
\* task ids that exist and that do not.
NextNotFound ==
    \/ AgentRegister("a", "c1", FALSE) /\ UNCHANGED <<response, netVars>>
    \/ TaskCreate("a", <<TaskData("T")>>, None)
           /\ UNCHANGED <<response, netVars>>
    \/ \E agentId \in Agents, taskId \in {"u1", "t1"},
          status \in {"in_progress", "completed"} :
           TaskUpdate(agentId, taskId, status, <<>>)
               /\ UNCHANGED <<response, netVars>>
    \/ \E agentId \in Agents, state \in {None, "pending"} :
           TaskGet(agentId, state) /\ UNCHANGED <<response, netVars>>
    \/ \E agentId \in Agents :
           AgentStatus(agentId) /\ UNCHANGED <<response, netVars>>

SpecNotFound == Init /\ [][NextNotFound]_vars

\* ---------------------------------------------- the cleanup specification

\* The numbers of completed tasks a cleanup is asked to keep.
KeepCounts == {0, 1}

\* The Task Queue operations of agent a, cleanup among them.
NextCleanup ==
    \/ \E t \in QueueTasks("a") :
           AddTask("a", t) /\ UNCHANGED <<response, netVars>>
    \/ \E id \in TaskIds :
           ActivateTask("a", id) /\ UNCHANGED <<response, netVars>>
    \/ \E id \in TaskIds :
           CompleteTask("a", id, <<>>) /\ UNCHANGED <<response, netVars>>
    \/ \E id \in TaskIds, reason \in Reasons :
           BlockTask("a", id, reason) /\ UNCHANGED <<response, netVars>>
    \/ \E id \in TaskIds :
           UnblockTask("a", id) /\ UNCHANGED <<response, netVars>>
    \/ \E keepCount \in KeepCounts :
           CleanupCompletedTasks("a", keepCount)
               /\ UNCHANGED <<response, netVars>>

SpecCleanup == InitRegistered /\ [][NextCleanup]_vars

\* ------------------------------------------ the task/get specification

\* The states the callers of task-get name: none, the three states and one
\* that is none of them.
GetStates == validStates \cup {None, "invalid-state"}

\* Agent a is registered and works through its queue; b never is, so its
\* task files are absent.  Every agent's collections are read.
NextTaskGet ==
    \/ SystemRegisterAgent("a") /\ UNCHANGED <<response, netVars>>
    \/ \E t \in QueueTasks("a") :
           /\ "a" \in dirs
           /\ AddTask("a", t)
           /\ UNCHANGED <<response, netVars>>
    \/ \E id \in TaskIds :
           ActivateTask("a", id) /\ UNCHANGED <<response, netVars>>
    \/ \E id \in TaskIds :
           CompleteTask("a", id, <<>>) /\ UNCHANGED <<response, netVars>>
    \/ \E agentId \in Agents \cup {None}, state \in GetStates :
           TaskGet(agentId, state) /\ UNCHANGED <<response, netVars>>

SpecTaskGet == Init /\ [][NextTaskGet]_vars

\* ------------------------------------------ the polling specification

\* The state after registerAgent("a"), registerAgent("b") and two context
\* syncs sent by a, one to itself and one to b.
InitMailed ==
    /\ pending = [a \in Agents |-> <<>>]
    /\ active = [a \in Agents |-> <<>>]
    /\ completed = [a \in Agents |-> <<>>]
    /\ dirs = Agents
    /\ context = [a \in Agents |-> DefaultContext]
    /\ mcpConfig = [a \in Agents |-> DefaultMcpConfig]
    /\ connectedAgents = [a \in Agents |-> NotConnected]
    /\ sysAgents = [a \in Agents |-> IF a = "a" THEN 1 ELSE 2]
    /\ registeredAgents = sysAgents
    /\ objCount = 2
    /\ clock = 1
    /\ relationships = [a \in Agents |-> DefaultRelationships]
    /\ uuidCount = 2
    /\ LET toA == Message(UuidNames[1], "CONTEXT_SYNC", "a", "a", <<>>)
           toB == Message(UuidNames[2], "CONTEXT_SYNC", "a", "b", <<>>)
       IN /\ outgoing = [a \in Agents |->
                             IF a = "a" THEN {toA, toB} ELSE {}]
          /\ incoming = [a \in Agents |->
                             IF a = "a" THEN {toA} ELSE {toB}]
          /\ lastOp = OpRet("message-send", toB.id)
    /\ processed = [a \in Agents |-> {}]
    /\ dispatched = <<>>
    /\ transport = "stdio"
    /\ messageHandlers = SetupHandlers
    /\ response = NoResponse
    /\ NoNetwork
    /\ NoSteps

\* The protocol is started and stopped while ticks are in flight.
NextPoll ==
    \/ Start
    \/ Stop
    \/ \E k \in 1..MaxTicks : TimerFires(k)
    \/ \E k \in 1..MaxTicks : ReadDir(k)
    \/ \E k \in 1..MaxTicks : Handle(k)
    \/ \E k \in 1..MaxTicks : Archive(k)

SpecPoll == InitMailed /\ [][NextPoll]_vars

\* The event loop resumes every suspended call whose file operation has
\* completed.
SpecPollFair ==
    /\ SpecPoll
    /\ \A k \in 1..MaxTicks : WF_vars(ReadDir(k) \/ Handle(k) \/ Archive(k))

\* -------------------------------------------- the dispatcher specification

Transports == {"stdio", "shared"}

\* A server of either kind, just constructed, over an empty base directory.
InitServer ==
    /\ pending = [a \in Agents |-> <<>>]
    /\ active = [a \in Agents |-> <<>>]
    /\ completed = [a \in Agents |-> <<>>]
    /\ dirs = {}
    /\ context = [a \in Agents |-> <<>>]
    /\ mcpConfig = [a \in Agents |-> NoConfig]
    /\ connectedAgents = [a \in Agents |-> NotConnected]
    /\ sysAgents = [a \in Agents |-> NoAgent]
    /\ registeredAgents = [a \in Agents |-> NoAgent]
    /\ objCount = 0
    /\ clock = 1
    /\ relationships = [a \in Agents |-> DefaultRelationships]
    /\ outgoing = [a \in Agents |-> {}]
    /\ incoming = [a \in Agents |-> {}]
    /\ processed = [a \in Agents |-> {}]
    /\ dispatched = <<>>
    /\ transport \in Transports
    /\ messageHandlers = IF transport = "stdio"
                         THEN SetupHandlers
                         ELSE SharedSetupHandlers
    /\ response = NoResponse
    /\ NoNetwork
    /\ NoSteps
    /\ uuidCount = 0
    /\ lastOp = Op("init", TRUE)

\* JSON-RPC ids of the requests; 0 is the falsy one.
RequestIds == {0, 7}

\* A name no handler is registered for.
unknown_method == <<"f", "o", "o", "/", "b", "a", "r">>

\* The methods requested: a method, two aliases, a method of each handler
\* the requests reach, tools/call, a name that is not in the table and no
\* name at all.
RequestMethods ==
    {agent_register_method, agent_register_tool, task_create_tool,
     relationship_add_tool, message_send_method, tools_call_method,
     unknown_method, <<>>}

\* The params of the requests.
RequestParams ==
    {[agentId |-> a, capabilities |-> "c1", forceUpdate |-> f,
      task |-> <<Task(None, "implementation", "T", "pending", None, None,
                      None, None, {}, <<>>)>>,
      createdBy |-> None, targetAgentId |-> "b",
      relationshipType |-> "consumer", fromAgentId |-> a,
      toAgentId |-> "a", messageType |-> "CUSTOM",
      name |-> agent_register_tool,
      arguments |-> [agentId |-> a, capabilities |-> "c1",
                     forceUpdate |-> f]] :
        a \in {"a", None}, f \in BOOLEAN}

NextDispatch ==
    \E id \in RequestIds, method \in RequestMethods, p \in RequestParams :
        McpHandleMessage(id, method, p) /\ UNCHANGED netVars

SpecDispatch == InitServer /\ [][NextDispatch]_vars

\* ------------------------------------------------ the proxy specification

\* The tools and methods a tool call names: two tools of methodMap, the
\* tool it lacks, a method name.
CalledTools ==
    {agent_register_tool, agent_status_tool, task_get_tool,
     agent_status_method}

\* The methods of the requests the downstream client writes.
StdinMethods ==
    {initialize_method, initialized_method, tools_list_method,
     resources_list_method, prompts_list_method, tools_call_method,
     ping_method, agent_status_method, task_create_tool}

NextProxy ==
    \/ \E id \in RequestIds, method \in StdinMethods \ {tools_call_method} :
           HandleStdinMessage(id, method, <<>>)
    \/ \E id \in RequestIds, name \in CalledTools :
           HandleStdinMessage(id, tools_call_method,
                              <<[name |-> name, arguments |-> <<>>]>>)
    \/ \E id \in RequestIds :
           HandleStdinMessage(id, tools_call_method, <<>>)

SpecProxy == InitServer /\ [][NextProxy]_vars

\* --------------------------------------- the shared server specification

\* A shared server just constructed.
InitShared == InitServer /\ transport = "shared"

\* The requests the clients send, with the same ids on both sockets: for a
\* handler that returns a value, one that throws and one that returns
\* nothing.
SharedRequests ==
    LET Request(ws, m, a) ==
            [ws |-> ws, id |-> 7, method |-> m,
             params |-> [agentId |-> a, capabilities |-> "c1",
                         forceUpdate |-> FALSE]]
    IN {Request(ws, agent_register_method, a) :
            ws \in Sockets, a \in {"a", None}}
       \cup {Request(ws, initialized_method, None) : ws \in Sockets}

NextShared ==
    \/ \E ws \in Sockets : HandleConnection(ws)
    \/ \E r \in SharedRequests : OnMessage(r.ws, r.id, r.method, r.params)
    \/ \E ws \in Sockets : OnGarbage(ws)
    \/ \E r \in SharedRequests : Respond(r)
    \/ \E ws \in Sockets : OnClose(ws)

SpecShared == InitShared /\ [][NextShared]_vars

\* ---------------------------------------------------- task queue properties

\* Every id that names a task document.
AllTaskIds == TaskIds \cup {UuidNames[i] : i \in 1..Len(UuidNames)}

\* The number of entries of a collection that carry the id.
Entries(tasks, id) == Cardinality({i \in 1..Len(tasks) : tasks[i].id = id})

\* The number of entries of the agent's three collections that carry the id.
Held(a, id) ==
    Entries(pending[a], id) + Entries(active[a], id) + Entries(completed[a], id)

\* The statuses of the agent's documents that carry the id.
StatusesOf(a, id) ==
    {t.status : t \in {pending[a][i] : i \in {j \in 1..Len(pending[a]) :
                                                pending[a][j].id = id}}
                    \cup {active[a][i] : i \in {j \in 1..Len(active[a]) :
                                                active[a][j].id = id}}
                    \cup {completed[a][i] : i \in {j \in 1..Len(completed[a]) :
                                                completed[a][j].id = id}}}

\* C1: after every operation each task id is held by exactly one entry of the
\* agent's pending, active and completed collections, unless it was never
\* enqueued for the agent (held by none before and after).
C1_ExactlyOneCollection ==
    [][\A a \in Agents, id \in AllTaskIds :
          \/ Held(a, id)' = 1
          \/ Held(a, id) = 0 /\ Held(a, id)' = 0]_vars

\* The entry activateTask looks at: the first pending entry with the id.
FirstPending(a, id) ==
    CHOOSE i \in 1..Len(pending[a]) :
        /\ pending[a][i].id = id
        /\ \A j \in 1..(i - 1) : pending[a][j].id # id

\* C2: activateTask(id) succeeds iff the id is in the agent's pending
\* collection and every dependency of that task is the id of a completed task
\* of the agent; on success the task leaves pending and is appended to active
\* with status in_progress; on failure it throws and the three collections
\* are unchanged.
C2_ActivateIffReady ==
    [][\A a \in Agents, id \in TaskIds :
          ActivateTask(a, id) =>
            LET inPending == \E i \in 1..Len(pending[a]) : pending[a][i].id = id
                i == FirstPending(a, id)
                ready == inPending
                         /\ pending[a][i].dependencies
                                \subseteq TaskIdsOf(completed[a])
            IN /\ lastOp'.ok = ready
               /\ ready =>
                    /\ pending'[a] = SubSeq(pending[a], 1, i - 1)
                                     \o SubSeq(pending[a], i + 1, Len(pending[a]))
                    /\ active'[a] = active[a]
                           \o <<[pending[a][i] EXCEPT !.status = "in_progress"]>>
                    /\ completed' = completed
                    /\ \A b \in Agents \ {a} :
                          pending'[b] = pending[b] /\ active'[b] = active[b]
               /\ ~ready => UNCHANGED <<pending, active, completed>>]_vars

\* C2 witness: an activation has succeeded for a task with a dependency, and
\* that dependency is completed.
C2_Witness ==
    /\ lastOp = Op("activateTask", TRUE)
    /\ \E a \in Agents :
          /\ active[a] # <<>>
          /\ active[a][Len(active[a])].dependencies = {"t1"}
          /\ active[a][Len(active[a])].status = "in_progress"
          /\ "t1" \in TaskIdsOf(completed[a])

\* The status changes the data model allows.
AllowedTransitions ==
    {<<"pending", "in_progress">>, <<"in_progress", "completed">>,
     <<"in_progress", "blocked">>, <<"blocked", "in_progress">>}

\* C3: the status of a task only ever changes along pending -> in_progress,
\* in_progress -> completed, in_progress -> blocked, blocked -> in_progress.
C3_StatusTransitions ==
    [][\A a \in Agents, id \in AllTaskIds :
          (Held(a, id) = 1 /\ Held(a, id)' = 1) =>
             \A old \in StatusesOf(a, id) : \A new \in StatusesOf(a, id)' :
                 old = new \/ <<old, new>> \in AllowedTransitions]_vars

\* --------------------------------------------------- registration properties

C5_SystemReRegisterKeepsInstance ==
    [][\A a \in Agents :
          (SystemRegisterAgent(a) /\ sysAgents[a] # NoAgent)
          => /\ lastOp'.ok
             /\ sysAgents'[a] = sysAgents[a]]_vars

\* --------------------------------------------------- relationship properties

\* The entries an agent's category holds for one peer.
EntriesFor(a, category, peer) ==
    Cardinality({i \in 1..Len(relationships[a][category]) :
                    relationships[a][category][i].agentId = peer})

\* C6: adding a relationship is idempotent: whatever add calls were made,
\* through the Relationship Manager or through relationship-add, an agent's
\* registry holds at most one entry for a (peer, category) pair.
C6_AddIdempotent ==
    \A a \in Agents, c \in Categories, peer \in Agents :
        EntriesFor(a, c, peer) <= 1

\* -------------------------------------------------------- mailbox properties

\* C7: when a send from A to B returns, through the protocol or through
\* message-send, one and the same document with the id of the message is in
\* A's outgoing namespace and in B's incoming namespace.
C7_SendWritesBoth ==
    [][\A f \in Agents, t \in Agents :
          (/\ lastOp'.ok
           /\ lastOp'.op \in {"sendMessage", "message-send"}
           /\ \/ \E title \in {"T", None} : CreateTaskRequest(f, t, title)
              \/ \E ty \in SentTypes : MessageSend(f, t, ty))
          => \E m \in outgoing'[f] :
                 /\ m.id = UuidNames[uuidCount']
                 /\ m.from_agent_id = f
                 /\ m.to_agent_id = t
                 /\ m \in incoming'[t]]_vars

\* C7 witness: a task request of "a" for "b" has just been sent, and the
\* message that carries the task is in both namespaces.
C7_Witness ==
    /\ lastOp.op = "sendMessage"
    /\ lastOp.ok
    /\ \E m \in outgoing["a"] \cap incoming["b"] :
           /\ m.id = lastOp.ret
           /\ m.type = "TASK_REQUEST"
           /\ m.task_data # <<>>

\* How often the latest poll handed the id to a handler.
TimesDispatched(seq, id) ==
    Cardinality({i \in 1..Len(seq) : seq[i] = id})

\* C8: a poll tick hands each item that was in an incoming namespace to a
\* handler exactly once and leaves every incoming namespace empty, each item
\* archived or deleted, whatever the item holds.
C8_PollDispatchesEachOnce ==
    [][PollForMessages
       => /\ \A a \in Agents :
                 registeredAgents[a] # NoAgent => incoming'[a] = {}
          /\ \A a \in Agents : \A m \in incoming[a] :
                 /\ TimesDispatched(dispatched', m.id) = 1
                 /\ m \in processed'[a] \/ m \notin incoming'[a]]_vars

\* ----------------------------------------------------- dispatcher properties

\* C9: a request whose method is not in the method table is answered with
\* error code -32601 under the id of the request, and no agent, task,
\* relationship or mailbox state changes; on the stdio server and on the
\* shared server.
C9_UnknownMethod ==
    [][\A id \in RequestIds, method \in RequestMethods, p \in RequestParams :
          (/\ method \notin DOMAIN messageHandlers
           /\ McpHandleMessage(id, method, p))
          => /\ response' = MCPResponse(id, MethodNotFound)
             /\ UNCHANGED <<queueVars, regVars, relVars, mailVars,
                            uuidCount>>]_vars

\* C9 witness: the shared server, with an agent registered and a task
\* created, has answered request 7 with "method not found".
C9_Witness ==
    /\ transport = "shared"
    /\ connectedAgents["a"].registered
    /\ pending["a"] # <<>>
    /\ response = MCPResponse(7, MethodNotFound)

C11_RequestBecomesTaskOfReceiver ==
    [][PollForMessages
       => \A b \in Agents : \A m \in incoming[b] :
              (/\ m.type = "TASK_REQUEST"
               /\ m.task_data # <<>>
               /\ m.task_data[1].title # None)
              => /\ \E i \in (Len(pending[b]) + 1)..Len(pending'[b]) :
                        /\ pending'[b][i].id = m.task_data[1].id
                        /\ pending'[b][i].title = m.task_data[1].title
                        /\ pending'[b][i].status = "pending"
                        /\ pending'[b][i].agent_id = b
                 /\ \E i \in (Len(context[b]) + 1)..Len(context'[b]) :
                        context'[b][i].title = m.task_data[1].title
                 /\ m \notin incoming'[b]]_vars

\* ---------------------------------------------- task/update properties

\* The tasks of a collection other than those with the id.
Others(tasks, taskId) ==
    {tasks[i] : i \in {j \in 1..Len(tasks) : tasks[j].id # taskId}}

\* C12: the response of a task update carries an incorporation suggestion
\* if and only if the requested status is completed and the task's creator
\* is not the agent completing it; the suggested task then has the creator
\* as target, the original task's id as reference, the completing agent as
\* completer and the completed task's deliverable list.
C12_IncorporationSuggestion ==
    [][\A a \in Agents, id \in UpdatedIds, st \in Statuses, dl \in Supplied :
           (/\ lastOp'.op = "task-update"
            /\ lastOp'.ok
            /\ lastOp'.result[1].task.id = id
            /\ lastOp'.result[1].task.status = st
            /\ TaskUpdate(a, id, st, dl))
           => LET r == lastOp'.result[1]
                  g == r.incorporation_guidance
              IN /\ (g # <<>>) <=> (st = "completed" /\ r.task.created_by # a)
                 /\ r.incorporation_needed <=> (g # <<>>)
                 /\ g # <<>>
                    => LET t == g[1].suggested_incorporation_task
                       IN /\ t.target_agent_id = r.task.created_by
                          /\ t.agent_id = r.task.created_by
                          /\ t.reference_task_id = id
                          /\ t.metadata.completed_by = a
                          /\ g[1].completed_by = a
                          /\ \E i \in 1..Len(completed'[a]) :
                                 /\ completed'[a][i].id = id
                                 /\ completed'[a][i].deliverables
                                        = t.deliverables]_vars

\* A task update has answered with a suggestion that lists deliverables.
C12_Witness ==
    /\ lastOp.op = "task-update"
    /\ lastOp.result # <<>>
    /\ lastOp.result[1].incorporation_guidance # <<>>
    /\ lastOp.result[1].incorporation_guidance[1]
           .suggested_incorporation_task.deliverables # <<>>

\* C13: a task update that completes a task changes that task only: it ends
\* in the completed collection of the agent with status completed; no task
\* is created, the other tasks of the agent stay where they are, the
\* collections of every other agent (the creator's among them) and the
\* mailbox namespaces are the same before and after.
C13_SuggestionEnqueuesNothing ==
    [][\A a \in Agents, id \in UpdatedIds, dl \in Supplied :
           (/\ lastOp'.op = "task-update"
            /\ lastOp'.ok
            /\ lastOp'.result[1].task.id = id
            /\ lastOp'.result[1].task.status = "completed"
            /\ TaskUpdate(a, id, "completed", dl))
           => /\ \A x \in Agents \ {a} :
                     /\ pending'[x] = pending[x]
                     /\ active'[x] = active[x]
                     /\ completed'[x] = completed[x]
              /\ mailVars' = mailVars
              /\ TotalTasks' = TotalTasks
              /\ Others(pending'[a], id) = Others(pending[a], id)
              /\ Others(active'[a], id) = Others(active[a], id)
              /\ Others(completed'[a], id) = Others(completed[a], id)
              /\ id \notin TaskIdsOf(pending'[a]) \cup TaskIdsOf(active'[a])
              /\ \E i \in 1..Len(completed'[a]) :
                     /\ completed'[a][i].id = id
                     /\ completed'[a][i].status = "completed"]_vars

\* A completion has answered with a suggestion while the creator holds a task
\* of its own.
C13_Witness ==
    /\ lastOp.op = "task-update"
    /\ lastOp.result # <<>>
    /\ lastOp.result[1].incorporation_needed
    /\ LET x == lastOp.result[1].task.created_by
       IN Len(pending[x]) + Len(active[x]) + Len(completed[x]) > 0

\* How often a deliverable is listed.
Count(dels, d) == Cardinality({i \in 1..Len(dels) : dels[i] = d})

\* The deliverables of a list.
Elements(dels) == {dels[i] : i \in 1..Len(dels)}

\* C14: completing a task merges the supplied deliverables into its list as
\* a set union: afterwards every deliverable listed before and every one
\* supplied is listed exactly once; for TaskQueue.completeTask and for a
\* task update to completed.
C14_DeliverablesSetUnion ==
    [][\A a \in Agents, id \in UpdatedIds, dl \in Supplied :
           /\ (CompleteTask(a, id, dl) /\ lastOp'.ok)
              => LET old == active[a][FindIndex(active[a], id)].deliverables
                     new == completed'[a][Len(completed'[a])].deliverables
                 IN \A d \in Elements(old) \cup Elements(dl) :
                        Count(new, d) = 1
           /\ (/\ FileOf(a, id) \in {"active", "pending"}
               /\ TaskUpdate(a, id, "completed", dl))
              => LET old == Listed(a, id)
                     new == completed'[a][Len(completed'[a])].deliverables
                 IN \A d \in Elements(old) \cup Elements(dl) :
                        Count(new, d) = 1]_vars

\* C19: creating a task validates it first: an invalid task makes the call
\* fail with the list of its violations and leaves pending unchanged, only a
\* valid task is appended to the end of pending; for TaskQueue.addTask and
\* for the task-create handler.
C19_CreateValidatesFirst ==
    [][/\ \A a \in Agents : \A t \in EnqueuedTasks(a) :
              AddTask(a, t)
              => IF validate(t) # {}
                 THEN /\ ~lastOp'.ok
                      /\ lastOp'.errors = validate(t)
                      /\ pending' = pending
                 ELSE pending'[a] = Append(pending[a], t)
       /\ \A a \in Agents, t \in TaskPayloads, c \in Agents \cup {None} :
              TaskCreate(a, <<t>>, c)
              => IF validate(NewTask(a, t, c)) # {}
                 THEN /\ ~lastOp'.ok
                      /\ pending' = pending
                 ELSE pending'[a] = Append(pending[a], NewTask(a, t, c))]_vars

\* ------------------------------------------------ re-registration properties

\* The documents of an agent that a registration creates when absent.
Documents(a) ==
    <<context[a], pending[a], active[a], completed[a], relationships[a]>>

\* C15: registering an agent that exists already, on either route, leaves
\* its context log, its pending, active and completed collections and its
\* relationship registry as they were.
C15_ReRegisterKeepsState ==
    [][\A a \in Agents :
           /\ \A c \in Capabilities, f \in BOOLEAN :
                  (a \in dirs /\ AgentRegister(a, c, f))
                  => Documents(a)' = Documents(a)
           /\ (a \in dirs /\ SystemRegisterAgent(a))
              => Documents(a)' = Documents(a)]_vars

\* An agent that holds a task, a relationship and a context entry has been
\* registered again, files and all.
C15_Witness ==
    /\ lastOp.op = "agent-register"
    /\ lastOp.ret \in {"updated", "registered"}
    /\ sysAgents["a"] # NoAgent
    /\ Len(context["a"]) > 1
    /\ Len(pending["a"]) + Len(active["a"]) + Len(completed["a"]) > 0
    /\ relationships["a"] # DefaultRelationships

\* ------------------------------------------------------- proxy properties

\* C16: until the proxy has received the initialized notification, every
\* request whose method is not initialize, initialized or ping is rejected
\* with an error and is not forwarded to the shared server; no tools/call
\* request reaches the shared server before the handshake completes.
C16_NothingForwardedBeforeHandshake ==
    [][\A id \in RequestIds, method \in StdinMethods,
          p \in {<<>>} \cup {<<[name |-> n, arguments |-> <<>>]>> :
                                n \in CalledTools} :
           (/\ ~initialized
            /\ method \notin {initialize_method, initialized_method,
                              ping_method}
            /\ HandleStdinMessage(id, method, p))
           => /\ forwarded' = forwarded
              /\ stdout'.code = InternalError]_vars

\* ----------------------------------------------- shared server properties

\* C17: with several connections open and their requests interleaved, the
\* response to a request is sent on the socket that sent the request and on
\* no other, and the session ids of the open connections are pairwise
\* distinct.
C17_ResponseOnOwnConnection ==
    /\ [](\A c1, c2 \in connectedClients : c1.ws # c2.ws => c1.id # c2.id)
    /\ [](\A w1, w2 \in Sockets :
              (IsOpen(w1) /\ IsOpen(w2) /\ w1 # w2)
              => clientId[w1] # clientId[w2])
    /\ [][\A r \in SharedRequests :
              Respond(r)
              => /\ \A w \in Sockets \ {r.ws} : sent'[w] = sent[w]
                 /\ IsOpen(r.ws)
                    => /\ sent'[r.ws] = Append(sent[r.ws], response')
                       /\ response'.id \in {r.id, NullId}]_vars

\* Both sockets are open, each has a request with the same id in handling,
\* and one of them has been answered.
C17_Witness ==
    /\ \A ws \in Sockets : IsOpen(ws)
    /\ \E r \in inflight : r.ws = "ws1"
    /\ Len(sent["ws2"]) = 2
    /\ sent["ws2"][2] = response

\* C20: every request handled by the shared server yields exactly one
\* response on its socket, and the socket stays open: code -32603 with the
\* thrown message when the handler threw, the returned value as result when
\* it returned one, an empty result when it returned nothing; data that
\* cannot be parsed is answered with one error as well.
C20_OneResponsePerRequest ==
    [][/\ \A r \in SharedRequests :
              Respond(r)
              => /\ connectedClients' = connectedClients
                 /\ IsOpen(r.ws)
                    => /\ Len(sent'[r.ws]) = Len(sent[r.ws]) + 1
                       /\ sent'[r.ws][Len(sent'[r.ws])] = response'
                 /\ ~lastOp'.ok
                    => /\ response'.code = InternalError
                       /\ response'.message = <<ThrownError(lastOp')>>
                       /\ response'.result = <<>>
                 /\ lastOp'.ok
                    => /\ response'.code = 0
                       /\ response'.id = r.id
                       /\ response'.result = <<ReturnValue(lastOp')>>
                       /\ response'.message = <<>>
                 /\ (r.method = initialized_method)
                    => response'.result
                           = <<[ret |-> None, result |-> <<>>]>>
       /\ \A ws \in Sockets :
              OnGarbage(ws)
              => /\ connectedClients' = connectedClients
                 /\ Len(sent'[ws]) = Len(sent[ws]) + 1
                 /\ sent'[ws][Len(sent'[ws])].code = InternalError]_vars

\* A handler has thrown and a handler has returned nothing, each answered on
\* its socket.
C20_Witness ==
    \E w1, w2 \in Sockets :
        /\ Len(sent[w1]) = 2
        /\ sent[w1][2].code = InternalError
        /\ sent[w1][2].message # <<>>
        /\ Len(sent[w2]) = 2
        /\ sent[w2][2].code = 0
        /\ sent[w2][2].result = <<[ret |-> None, result |-> <<>>]>>

\* C18: a tools/call request {name, arguments} handed to the dispatcher is
\* the named operation invoked with the arguments as its params: it is not
\* answered with "method not found", the handler of the name runs (for
\* agent-register with an agent id, the agent is registered afterwards) and
\* its result comes back as the result of the response.
C18_ToolsCallRunsNamedHandler ==
    [][\A id \in RequestIds, p \in RequestParams :
           (/\ p.name \in DOMAIN messageHandlers
            /\ p.arguments.agentId # None
            /\ McpHandleMessage(id, tools_call_method, p))
           => /\ response'.code # MethodNotFound
              /\ lastOp'.op = "agent-register"
              /\ connectedAgents'[p.arguments.agentId].registered
              /\ response'.result # <<>>]_vars

\* ------------------------------------------------- mailbox handler properties

\* The ids of a set of messages.
IdsOf(files) == {m.id : m \in files}

NoteTypes == MessageTypes \ {"TASK_REQUEST"}

\* How many entries of the kind a context log holds.
CountKind(log, kind) ==
    Cardinality({i \in DOMAIN log : log[i].kind = kind})

\* The task requests among the files that addTask accepts.
Accepted(a, files) ==
    {m \in files : m.type = "TASK_REQUEST" /\ ~HandlerThrows(World, a, m)}

\* C23: a poll tick appends to the context log of a receiver exactly one
\* entry per message of type TASK_RESPONSE, STATUS_UPDATE,
\* DEPENDENCY_NOTIFICATION, INTEGRATION_TEST, COMPLETION_NOTIFICATION or
\* CONTEXT_SYNC in its incoming namespace and changes nothing else for those
\* messages: the active and completed collections and the relationship
\* registry of every agent are unchanged, and the pending collection of an
\* agent grows only by the tasks of the TASK_REQUEST messages in that
\* agent's own incoming namespace.
C23_OnlyTaskRequestEnqueues ==
    [][(lastOp'.op = "pollForMessages" /\ PollForMessages)
       => /\ UNCHANGED <<active, completed, relationships>>
          /\ \A a \in Agents :
                 /\ \A ty \in NoteTypes :
                        CountKind(context'[a], ty) =
                            CountKind(context[a], ty)
                            + Cardinality({m \in incoming[a] : m.type = ty})
                 /\ Len(context'[a]) =
                        Len(context[a])
                        + Cardinality({m \in incoming[a] :
                                          m.type \in NoteTypes})
                        + Cardinality(Accepted(a, incoming[a]))
                 /\ Len(pending'[a]) =
                        Len(pending[a]) + Cardinality(Accepted(a, incoming[a]))
                 /\ SubSeq(pending'[a], 1, Len(pending[a])) = pending[a]
                 /\ \A i \in (Len(pending[a]) + 1)..Len(pending'[a]) :
                        \E m \in Accepted(a, incoming[a]) :
                            pending'[a][i] = fromJSON(m.task_data)]_vars

\* A tick has handled a status update for b: b's context log holds its note
\* and no agent holds a task.
C23_Witness ==
    /\ lastOp.op = "pollForMessages"
    /\ \E m \in processed["b"] :
           /\ m.type = "STATUS_UPDATE"
           /\ m.id = dispatched[1]
    /\ CountKind(context["b"], "STATUS_UPDATE") = 1
    /\ TotalTasks = 0

\* ------------------------------------------------------ polling properties

\* C24: a poll tick begins only while the protocol is running, so none
\* begins after stop; stop leaves the ticks in flight alone and each of them
\* runs to its end; start while running and stop while stopped change
\* nothing; and at most one polling timer is set at any time.
C24_StopIsCooperative ==
    /\ [](Cardinality(timers) <= 1)
    /\ [][(\E k \in 1..MaxTicks : ticks[k] = NoTick /\ ticks'[k] # NoTick)
             => isRunning]_vars
    /\ [][Stop => ticks' = ticks]_vars
    /\ [][(isRunning /\ Start) => UNCHANGED pollVars]_vars
    /\ [][(~isRunning /\ Stop) => UNCHANGED pollVars]_vars
    /\ \A k \in 1..MaxTicks : (ticks[k] # NoTick) ~> (ticks[k] = NoTick)

\* The protocol has been stopped while a tick was in flight: no timer is
\* left and the tick is still at work on a file.
C24_Witness ==
    /\ lastOp.op = "stop"
    /\ ~isRunning
    /\ timers = {}
    /\ ticks[1].pc \in {"file", "archive"}

C22_TaskGetIsPureRead ==
    [][\A agentId \in Agents, state \in GetStates :
          TaskGet(agentId, state)
          => /\ UNCHANGED <<queueVars, regVars, relVars, mailVars>>
             /\ state = "pending"
                    => lastOp'.ok /\ lastOp'.result[3] = pending[agentId]
             /\ state = "active"
                    => lastOp'.ok /\ lastOp'.result[3] = active[agentId]
             /\ state = "completed"
                    => lastOp'.ok /\ lastOp'.result[3] = completed[agentId]
             /\ state = None
                    => /\ lastOp'.ok
                       /\ lastOp'.result[3].pending = pending[agentId]
                       /\ lastOp'.result[3].active = active[agentId]
                       /\ lastOp'.result[3].completed = completed[agentId]
             /\ state \notin validStates \cup {None} => ~lastOp'.ok
             /\ (agentId \notin dirs /\ state \in validStates)
                    => lastOp'.result[3] = <<>>]_vars

\* task-get has returned a's active collection, which holds a task, while
\* a's pending collection holds another.
C22_Witness ==
    /\ lastOp.op = "task-get"
    /\ lastOp.ok
    /\ active["a"] # <<>>
    /\ pending["a"] # <<>>
    /\ lastOp.result[1] = "a"
    /\ lastOp.result[2] = "active"
    /\ lastOp.result[3] = active["a"]

\* ------------------------------------------------------ blocking properties

\* The task but for its status and its stored block reason.
Unblocked(task) == [task EXCEPT !.status = "in_progress", !.blockReason = None]

\* The collection is the same but for the status and the block reason of
\* its entry i.
SameButAt(before, after, i) ==
    /\ Len(after) = Len(before)
    /\ \A j \in DOMAIN before : j # i => after[j] = before[j]
    /\ Unblocked(after[i]) = Unblocked(before[i])

\* C26: blockTask and unblockTask fail and change nothing when the id is not
\* in active.  Otherwise they change the first task of active with the id
\* and nothing else: blockTask sets its status to blocked and stores the
\* reason it was given, unblockTask sets its status to in_progress and
\* removes the stored reason; pending and completed are unchanged and active
\* keeps its members in their order.
C26_BlockUnblockInPlace ==
    /\ [][\A id \in TaskIds, reason \in Reasons :
              BlockTask("a", id, reason)
              => LET i == FindIndex(active["a"], id)
                 IN /\ UNCHANGED <<pending, completed, otherQ>>
                    /\ i = 0 => ~lastOp'.ok /\ active' = active
                    /\ i # 0
                           => /\ lastOp'.ok
                              /\ active'["b"] = active["b"]
                              /\ SameButAt(active["a"], active'["a"], i)
                              /\ active'["a"][i].status = "blocked"
                              /\ reason # None
                                     => active'["a"][i].blockReason
                                            = reason]_vars
    /\ [][\A id \in TaskIds :
              UnblockTask("a", id)
              => LET i == FindIndex(active["a"], id)
                 IN /\ UNCHANGED <<pending, completed, otherQ>>
                    /\ i = 0 => ~lastOp'.ok /\ active' = active
                    /\ i # 0
                           => /\ lastOp'.ok
                              /\ active'["b"] = active["b"]
                              /\ SameButAt(active["a"], active'["a"], i)
                              /\ active'["a"][i].status = "in_progress"
                              /\ active'["a"][i].blockReason = None]_vars

\* blockTask has blocked the first of two active tasks with a reason; the
\* second is still in progress.
C26_Witness ==
    /\ lastOp.op = "blockTask"
    /\ lastOp.ok
    /\ Len(active["a"]) = 2
    /\ active["a"][1].status = "blocked"
    /\ active["a"][1].blockReason = "r1"
    /\ active["a"][2].status = "in_progress"

\* ------------------------------------------------------- removal properties

\* C27: removeRelationship(peer) returns true exactly when the registry held
\* an entry for the peer; after it returns, whatever adds came before, the
\* peer has no relationship type and is not among the related agents; when
\* it returns false the registry and the context log are unchanged.
C27_RemoveClearsPeer ==
    [][\A a \in Agents, peer \in Agents :
          (lastOp'.op = "removeRelationship" /\ RemoveRelationship(a, peer))
          => /\ (lastOp'.ret = "true") <=> (peer \in GetAllRelatedAgents(a))
             /\ GetRelationshipType(a, peer)' = None
             /\ peer \notin GetAllRelatedAgents(a)'
             /\ lastOp'.ret = "false"
                    => UNCHANGED <<relationships, context>>]_vars

\* ------------------------------------------------------- sending properties

\* C28: when message-send writes the sender's outgoing copy and the write
\* of the receiver's incoming copy fails because the receiver has no
\* directory, the call reports an error, the new message stays in the
\* sender's outgoing namespace and is in no incoming namespace, and the
\* receiver's incoming namespace is as before.
C28_FailedSendLeavesOrphan ==
    [][\A f \in Agents, t \in Agents, ty \in SentTypes :
          (f \in dirs /\ t \notin dirs /\ MessageSend(f, t, ty))
          => /\ ~lastOp'.ok
             /\ incoming' = incoming
             /\ \E m \in outgoing'[f] :
                    /\ m.id = UuidNames[uuidCount']
                    /\ m.to_agent_id = t
                    /\ m \notin outgoing[f]
                    /\ outgoing'[f] = outgoing[f] \cup {m}
                    /\ \A a \in Agents : m \notin incoming'[a]]_vars

\* A send of "a" to "b", which has no directory, has failed and left its
\* message in the outgoing namespace of "a".
C28_Witness ==
    /\ lastOp.op = "message-send"
    /\ ~lastOp.ok
    /\ "a" \in dirs
    /\ "b" \notin dirs
    /\ \E m \in outgoing["a"] :
           /\ m.id = UuidNames[uuidCount]
           /\ m.to_agent_id = "b"
           /\ m \notin incoming["b"]

\* -------------------------------------------------- interleaving properties

\* C29: nothing keeps a second call on an agent from running between the
\* read and the write of a first.  Each write stores the whole collection
\* its call read with its own entry pushed, whatever the store holds by
\* then, so the later write overwrites the earlier one; the call reports
\* success all the same.
C29_LastWriteWins ==
    /\ [][\A c \in 1..MaxCalls :
              CreateTaskWrite(c)
              => LET call == calls[c]
                 IN /\ pending'[call.agentId]
                           = Append(call.read[1], call.task[1])
                    /\ <<"task", call.task[1].id, None>> \in reported'
                    /\ lastOp'.ok]_vars
    /\ [][\A c \in 1..MaxCalls :
              AddRelationshipWrite(c)
              => LET call == calls[c]
                     category == CategoryOf(call.task[1].type)
                 IN /\ relationships'[call.agentId][category]
                           = Append(call.read[1][category], call.task[1])
                    /\ \A other \in Categories \ {category} :
                           relationships'[call.agentId][other]
                               = call.read[1][other]
                    /\ lastOp'.ok]_vars

\* Two task/create calls on "a" have returned their ids, no call is in
\* flight, and the pending collection of "a" holds the task of one of them
\* only.
C29_Witness ==
    /\ \A c \in 1..MaxCalls : calls[c].pc = "done"
    /\ {<<"task", "u1", None>>, <<"task", "u2", None>>} \subseteq reported
    /\ Len(pending["a"]) = 1
    /\ pending["b"] = <<>>

\* -------------------------------------------------------- status properties

\* The agents that have registered through agent/register.
RegisteredThroughAdapter == {a \in Agents : connectedAgents[a].registered}

\* C30: the status document of the shared server reports as its client
\* count the number of sockets that are open, and as its agent count the
\* number of distinct agents registered through the server.
C30_StatusCounts ==
    /\ GetServerStatus.connectedClients
           = Cardinality({ws \in Sockets : readyState[ws] = "OPEN"})
    /\ GetServerStatus.connectedAgents
           = Cardinality(RegisteredThroughAdapter)

\* --------------------------------------------------------- client properties

\* The ids request has handed out.
Issued == 1..(messageId - 1)

\* C31: a request of the connected client settles exactly once.  While its
\* id is in the table its promise is open; the response that carries the id
\* resolves or rejects it, or else its timeout rejects it; a response for an
\* id that is not in the table changes nothing; request takes an id that
\* was never used; and every id leaves the table, whatever happens to the
\* connection.
C31_RequestSettlesOnce ==
    /\ [](\A id \in 1..MaxRequests :
             /\ Len(settled[id]) <= 1
             /\ id \in pendingRequests => id \in Issued /\ settled[id] = <<>>
             /\ id \in Issued \ pendingRequests => Len(settled[id]) = 1
             /\ id \notin Issued => settled[id] = <<>>)
    /\ [][\A id \in 1..MaxRequests, isError \in BOOLEAN :
              OnResponse(id, isError)
              => IF id \in pendingRequests
                 THEN /\ id \notin pendingRequests'
                      /\ settled'[id]
                             = <<IF isError THEN "error" ELSE "result">>
                 ELSE UNCHANGED <<pendingRequests, settled>>]_vars
    /\ [][\A id \in 1..MaxRequests :
              (RequestTimeout(id) /\ id \in pendingRequests)
              => /\ id \notin pendingRequests'
                 /\ settled'[id] = <<"timeout">>]_vars
    /\ [][(isConnected /\ ClientRequest)
              => /\ messageId \notin Issued
                 /\ messageId \in Issued'
                 /\ pendingRequests' = pendingRequests \cup {messageId}]_vars
    /\ \A id \in 1..MaxRequests :
           (id \in pendingRequests) ~> (id \notin pendingRequests)

\* The one request issued was rejected by its timeout, and the response
\* that carries its id has arrived since and was dropped.
C31_Witness ==
    /\ messageId = 2
    /\ settled[1] = <<"timeout">>
    /\ lastOp.op = "message"
    /\ pendingRequests = {}

\* C32: the attempt counter never exceeds maxReconnectAttempts and a
\* successful open sets it to 0.  A close below the cap counts one attempt
\* more and sets one timer whose delay is reconnectDelay times the new
\* count; a close at the cap sets none.  One timer at most is set, and the
\* attempt it starts is the one the counter shows.
C32_ReconnectIsCapped ==
    /\ [](/\ reconnectAttempts \in 0..maxReconnectAttempts
          /\ Cardinality(reconnectTimers) <= 1)
    /\ [][OnOpen => reconnectAttempts' = 0]_vars
    /\ [][OnCloseEvent
              => IF reconnectAttempts >= maxReconnectAttempts
                 THEN UNCHANGED <<reconnectAttempts, reconnectTimers>>
                 ELSE /\ reconnectAttempts' = reconnectAttempts + 1
                      /\ reconnectTimers' = reconnectTimers
                             \cup {reconnectDelay * reconnectAttempts'}]_vars
    /\ [][\A delay \in reconnectTimers :
              ReconnectTimerFires(delay)
              => /\ delay = reconnectDelay * reconnectAttempts
                 /\ reconnectAttempts \in 1..maxReconnectAttempts]_vars

\* The fifth attempt has failed: the socket has closed with the counter at
\* the cap, and no timer is set.
C32_Witness ==
    /\ reconnectAttempts = maxReconnectAttempts
    /\ clientWs = "CLOSED"
    /\ lastOp.op = "close"
    /\ reconnectTimers = {}

\* C40: after disconnect the client stays disconnected.  The close of the
\* socket that disconnect closed sets no reconnect timer and counts no
\* attempt, so that isConnected stays false; and a request made while
\* isConnected is false fails and adds nothing to the table.
C40_DisconnectIsFinal ==
    /\ [][(clientWs = "CLOSING" /\ OnCloseEvent)
              => UNCHANGED <<reconnectAttempts, reconnectTimers>>]_vars
    /\ [][(~isConnected /\ ClientRequest)
              => ~lastOp'.ok /\ UNCHANGED <<pendingRequests, messageId>>]_vars

\* ------------------------------------------------- unknown-name properties

\* C33: task-update, task-get and agent-status fail and change nothing when
\* the agent they name never registered, and task-update fails and changes
\* nothing when the task id is in none of the agent's collections.
C33_UnknownNamesFail ==
    [][\A agentId \in Agents :
          /\ \A taskId \in {"u1", "t1"},
                status \in {"in_progress", "completed"} :
                 (/\ agentId \notin dirs \/ FileOf(agentId, taskId) = None
                  /\ lastOp'.op = "task-update"
                  /\ TaskUpdate(agentId, taskId, status, <<>>))
                 => /\ ~lastOp'.ok
                    /\ UNCHANGED <<queueVars, regVars, relVars, mailVars>>
          /\ \A state \in {None, "pending"} :
                 (/\ agentId \notin dirs
                  /\ lastOp'.op = "task-get"
                  /\ TaskGet(agentId, state))
                 => /\ ~lastOp'.ok
                    /\ UNCHANGED <<queueVars, regVars, relVars, mailVars>>
          /\ (/\ agentId \notin dirs
              /\ lastOp'.op = "agent-status"
              /\ AgentStatus(agentId))
                 => /\ ~lastOp'.ok
                    /\ UNCHANGED <<queueVars, regVars, relVars, mailVars>>]_vars

\* ----------------------------------------------------- response properties

\* C34: the response to a request carries the id of the request, whether
\* the handler returned, the method was unknown or the handler threw, on
\* the stdio server and on the shared server.
C34_ResponseCarriesRequestId ==
    [][\A id \in RequestIds, method \in RequestMethods, p \in RequestParams :
          McpHandleMessage(id, method, p) => response'.id = id]_vars

\* ------------------------------------------- overlapping-tick properties

\* The <<agent, message id>> pairs a tick has handed to handleMessage.
HandledBy(k) == {ticks[k].log[i] : i \in DOMAIN ticks[k].log}

\* C35: no item is handed to a handler twice: a tick never hands over an
\* item twice, and two ticks that are in flight at the same time never hand
\* over the same item.
C35_DispatchedAtMostOnce ==
    /\ \A k \in 1..MaxTicks :
           Cardinality(HandledBy(k)) = Len(ticks[k].log)
    /\ \A k1, k2 \in 1..MaxTicks :
           k1 # k2 => HandledBy(k1) \cap HandledBy(k2) = {}

\* ---------------------------------------------------- global id properties

\* C36: a task id is held by the collections of one agent at most.
C36_IdsGloballyUnique ==
    \A id \in AllTaskIds :
        \A a1, a2 \in Agents :
            (Held(a1, id) > 0 /\ Held(a2, id) > 0) => a1 = a2

\* ---------------------------------------------------- dependency properties

\* C37: every task in an agent's completed collection has all the ids of
\* its dependency set among the ids of that collection.
C37_CompletedIsDependencyClosed ==
    \A a \in Agents :
        \A i \in DOMAIN completed[a] :
            completed[a][i].dependencies \subseteq TaskIdsOf(completed[a])

\* C38: every task in pending has status pending, every task in active has
\* status in_progress or blocked, every task in completed has status
\* completed.
C38_CollectionAgreesWithStatus ==
    \A a \in Agents :
        /\ \A i \in DOMAIN pending[a] : pending[a][i].status = "pending"
        /\ \A i \in DOMAIN active[a] :
               active[a][i].status \in {"in_progress", "blocked"}
        /\ \A i \in DOMAIN completed[a] :
               completed[a][i].status = "completed"

\* The tasks of a collection.
TasksOf(tasks) == {tasks[i] : i \in DOMAIN tasks}

\* C39: a pending task that is ready is ready after every operation that
\* leaves it in pending, and the ready count of the statistics is the
\* number of pending tasks whose dependencies activateTask finds completed.
C39_ReadinessIsMonotone ==
    /\ [][\A a \in Agents :
              \A t \in TasksOf(pending[a]) \cap TasksOf(pending'[a]) :
                  isReady(t, TaskIdsOf(completed[a]))
                  => isReady(t, TaskIdsOf(completed'[a]))]_vars
    /\ [](\A a \in Agents :
              GetTaskStats(a).ready
                  = Cardinality({i \in DOMAIN pending[a] :
                        isReady(pending[a][i], TaskIdsOf(completed[a]))}))

====
